---------------------------- MODULE Spec2Model ----------------------------
(***************************************************************************)
(* pyArtifact deck-code codec: pyartifact/deck_encoding/encode.py and      *)
(* pyartifact/deck_encoding/decode.py.                                     *)
(*                                                                         *)
(* Conventions.  A Python str is a sequence of code points, a bytes or     *)
(* bytearray value a sequence of numbers in 0..255.  Python indexes from   *)
(* 0, TLA+ sequences from 1: At(s, i) is Python's s[i].  A raised          *)
(* exception is the name of its class in a field exc ("none": no           *)
(* exception), with the place that raised it in a field msg.               *)
(***************************************************************************)
EXTENDS Integers, Sequences, FiniteSets, TLC

----------------------------------------------------------------------------
(* Python primitives *)

\* 2^n
RECURSIVE Pow2(_)
Pow2(n) == IF n <= 0 THEN 1 ELSE 2 * Pow2(n - 1)

\* value >> n on Python ints (floor division, also for negative values)
Shr(value, n) == value \div Pow2(n)

\* value << n
Shl(value, n) == value * Pow2(n)

\* a & b on naturals
RECURSIVE BitAnd(_, _)
BitAnd(a, b) ==
    IF a = 0 \/ b = 0 THEN 0
    ELSE (IF a % 2 = 1 /\ b % 2 = 1 THEN 1 ELSE 0) + 2 * BitAnd(a \div 2, b \div 2)

\* a | b on naturals
RECURSIVE BitOr(_, _)
BitOr(a, b) ==
    IF a = 0 THEN b
    ELSE IF b = 0 THEN a
    ELSE (IF a % 2 = 1 \/ b % 2 = 1 THEN 1 ELSE 0) + 2 * BitOr(a \div 2, b \div 2)

\* s[i] for 0 <= i < len(s)
At(s, i) == s[i + 1]

\* a Python slice bound: negative counts from the end, then clamped to 0..len
SliceBound(n, i) ==
    IF i < 0 THEN (IF n + i < 0 THEN 0 ELSE n + i)
    ELSE IF i > n THEN n ELSE i

\* s[a:b]
PySlice(s, a, b) ==
    LET lo == SliceBound(Len(s), a)
        hi == SliceBound(Len(s), b)
    IN  IF hi <= lo THEN <<>> ELSE SubSeq(s, lo + 1, hi)

\* s[:b]
PyHead(s, b) == PySlice(s, 0, b)

\* s[-k:] for k > 0
PyTail(s, k) == PySlice(s, 0 - k, Len(s))

\* sum(b for b in s), by halves
RECURSIVE SumSeq(_)
SumSeq(s) ==
    IF s = <<>> THEN 0
    ELSE IF Len(s) = 1 THEN s[1]
    ELSE SumSeq(SubSeq(s, 1, Len(s) \div 2)) + SumSeq(SubSeq(s, Len(s) \div 2 + 1, Len(s)))

\* A prefix test that looks at the first character only
StartsWithFirst(s, p) == s # <<>> /\ p # <<>> /\ s[1] = p[1]

\* str.startswith
StartsWith(s, p) == Len(s) >= Len(p) /\ SubSeq(s, 1, Len(p)) = p

\* str.lstrip(chars): drops every leading character that is one of chars
RECURSIVE LStrip(_, _)
LStrip(s, chars) ==
    IF s # <<>> /\ Head(s) \in chars THEN LStrip(Tail(s), chars) ELSE s

\* str.replace(old, new) for single characters
ReplaceChar(s, old, new) == [i \in 1..Len(s) |-> IF s[i] = old THEN new ELSE s[i]]

\* A sort that leaves the list as it is
UnsortedById(xs) == xs

\* sorted(xs, key=lambda x: x['id']): stable, so equal ids keep their input order
RECURSIVE InsertById(_, _)
InsertById(sorted, x) ==
    IF sorted = <<>> THEN <<x>>
    ELSE IF Head(sorted).id <= x.id THEN <<Head(sorted)>> \o InsertById(Tail(sorted), x)
    ELSE <<x>> \o sorted

RECURSIVE SortedById(_)
SortedById(xs) ==
    IF xs = <<>> THEN <<>>
    ELSE InsertById(SortedById(SubSeq(xs, 1, Len(xs) - 1)), xs[Len(xs)])

----------------------------------------------------------------------------
(* Text: UTF-8, the tag-stripping regular expression, base64 *)

\* str.encode() of one code point (UTF-8)
Utf8Char(c) ==
    IF c < 128 THEN <<c>>
    ELSE IF c < 2048 THEN <<192 + (c \div 64), 128 + (c % 64)>>
    ELSE IF c < 65536 THEN <<224 + (c \div 4096), 128 + ((c \div 64) % 64), 128 + (c % 64)>>
    ELSE <<240 + (c \div 262144), 128 + ((c \div 4096) % 64),
           128 + ((c \div 64) % 64), 128 + (c % 64)>>

\* str.encode(), by halves
RECURSIVE Utf8Encode(_)
Utf8Encode(s) ==
    IF s = <<>> THEN <<>>
    ELSE IF Len(s) = 1 THEN Utf8Char(s[1])
    ELSE Utf8Encode(SubSeq(s, 1, Len(s) \div 2))
         \o Utf8Encode(SubSeq(s, Len(s) \div 2 + 1, Len(s)))

IsCont(b) == b >= 128 /\ b <= 191

\* The number of bytes of the well-formed UTF-8 sequence bs starts with, 0 if none
Utf8SeqLen(bs) ==
    LET n  == Len(bs)
        b1 == bs[1]
    IN  IF b1 < 128 THEN 1
        ELSE IF b1 >= 194 /\ b1 <= 223
            THEN (IF n >= 2 /\ IsCont(bs[2]) THEN 2 ELSE 0)
        ELSE IF b1 >= 224 /\ b1 <= 239
            THEN (IF n >= 3 /\ IsCont(bs[2]) /\ IsCont(bs[3])
                     /\ (b1 = 224 => bs[2] >= 160) /\ (b1 = 237 => bs[2] <= 159)
                  THEN 3 ELSE 0)
        ELSE IF b1 >= 240 /\ b1 <= 244
            THEN (IF n >= 4 /\ IsCont(bs[2]) /\ IsCont(bs[3]) /\ IsCont(bs[4])
                     /\ (b1 = 240 => bs[2] >= 144) /\ (b1 = 244 => bs[2] <= 143)
                  THEN 4 ELSE 0)
        ELSE 0

\* The code point of a well-formed sequence of k bytes
Utf8Point(bs, k) ==
    IF k = 1 THEN bs[1]
    ELSE IF k = 2 THEN (bs[1] - 192) * 64 + (bs[2] - 128)
    ELSE IF k = 3 THEN (bs[1] - 224) * 4096 + (bs[2] - 128) * 64 + (bs[3] - 128)
    ELSE (bs[1] - 240) * 262144 + (bs[2] - 128) * 4096 + (bs[3] - 128) * 64 + (bs[4] - 128)

\* Stands for a place that holds no character
NoChar == 0 - 1

\* bytes.decode(): [exc, value]; a malformed sequence raises UnicodeDecodeError.
\* UTF-8 marks its continuation bytes, so the characters start at the bytes that are not
\* continuation bytes: the text is well formed when a well-formed sequence starts at
\* each of those, and each continuation byte belongs to the sequence of the nearest
\* such byte before it.
Utf8Decode(bs) ==
    LET n == Len(bs)
        seqLen(p) == Utf8SeqLen(SubSeq(bs, p, IF p + 3 > n THEN n ELSE p + 3))
        owned(p) == \E q \in 1..(p - 1) :
                        /\ ~IsCont(bs[q])
                        /\ \A r \in (q + 1)..p : IsCont(bs[r])
                        /\ seqLen(q) > p - q
        wellFormed == \A p \in 1..n : IF IsCont(bs[p]) THEN owned(p) ELSE seqLen(p) > 0
        points == [p \in 1..n |-> IF IsCont(bs[p]) THEN NoChar
                                  ELSE Utf8Point(SubSeq(bs, p, n), seqLen(p))]
    IN  IF wellFormed
        THEN [exc |-> "none", value |-> SelectSeq(points, LAMBDA c : c # NoChar)]
        ELSE [exc |-> "UnicodeDecodeError", value |-> <<>>]

LT == 60
GT == 62

\* Where the match of '<[^<]+?>' that starts at s[i] = '<' ends (1-based), 0 if there
\* is none: the first '>' at least two places on with no '<' in between.
TagEnd(s, i) ==
    LET ends == {k \in (i + 2)..Len(s) :
                    s[k] = GT /\ \A j \in (i + 1)..(k - 1) : s[j] # LT}
    IN  IF ends = {} THEN 0 ELSE CHOOSE k \in ends : \A m \in ends : k <= m

\* re.sub('<[^<]+?>', '', s).  A match holds one '<', its first character, so no two
\* matches overlap and a match starts at every '<' that has a TagEnd: the characters
\* removed are those from such a '<' to its TagEnd.
StripTags(s) ==
    LET removed(j) == \E i \in 1..j : s[i] = LT /\ TagEnd(s, i) >= j
    IN  SelectSeq([j \in 1..Len(s) |-> IF removed(j) THEN NoChar ELSE s[j]],
                  LAMBDA c : c # NoChar)

PLUS == 43
SLASH == 47
DASH == 45
EQUALS == 61
UNDERSCORE == 95

\* The base64 alphabet: the character of a 6-bit value
B64Char(v) ==
    IF v < 26 THEN 65 + v
    ELSE IF v < 52 THEN 97 + (v - 26)
    ELSE IF v < 62 THEN 48 + (v - 52)
    ELSE IF v = 62 THEN PLUS ELSE SLASH

\* The 6-bit value of a character, 64 for a character outside the alphabet
B64Value(c) ==
    IF c >= 65 /\ c <= 90 THEN c - 65
    ELSE IF c >= 97 /\ c <= 122 THEN c - 97 + 26
    ELSE IF c >= 48 /\ c <= 57 THEN c - 48 + 52
    ELSE IF c = PLUS THEN 62
    ELSE IF c = SLASH THEN 63
    ELSE 64

\* base64.b64encode(bs).decode(): character 4g+r+1 is taken from the bytes 3g+1..3g+3
\* (a missing byte counts as 0, and a character with no byte of its own is '=')
B64Encode(bs) ==
    LET n == Len(bs)
        byte(k) == IF k <= n THEN bs[k] ELSE 0
        char(g, r) ==
            IF r = 0 THEN B64Char(byte(3 * g + 1) \div 4)
            ELSE IF r = 1 THEN B64Char((byte(3 * g + 1) % 4) * 16 + (byte(3 * g + 2) \div 16))
            ELSE IF r = 2 THEN
                (IF 3 * g + 2 > n THEN EQUALS
                 ELSE B64Char((byte(3 * g + 2) % 16) * 4 + (byte(3 * g + 3) \div 64)))
            ELSE (IF 3 * g + 3 > n THEN EQUALS ELSE B64Char(byte(3 * g + 3) % 64))
    IN  [i \in 1..(4 * ((n + 2) \div 3)) |-> char((i - 1) \div 4, (i - 1) % 4)]

\* binascii.a2b_base64 (not strict).  The C loop keeps quad_pos (data characters in the
\* open quad), and pads ('=' seen since the last data character, counted only while
\* quad_pos >= 2).  A character outside the alphabet is skipped; a '=' with
\* quad_pos >= 2 and quad_pos + pads >= 4 ends the input; input that runs out with
\* quad_pos # 0 raises binascii.Error.  Every data character after the first of a quad
\* completes one byte.
\* The place (1-based) of the '=' that ends the input, Len(s) + 1 if none does
A2BStop(s) ==
    LET isData(i)  == B64Value(s[i]) < 64
        quad_pos(i) == Cardinality({j \in 1..(i - 1) : isData(j)}) % 4
        \* '=' at or before i that no data character follows
        pads(i) == Cardinality({j \in 1..i : s[j] = EQUALS
                                             /\ \A k \in (j + 1)..(i - 1) : ~isData(k)})
        first(stops) == IF stops = {} THEN Len(s) + 1
                        ELSE CHOOSE i \in stops : \A k \in stops : i <= k
    IN  first({i \in 1..Len(s) : s[i] = EQUALS /\ quad_pos(i) >= 2
                                   /\ quad_pos(i) + pads(i) >= 4})

\* The bytes of the 6-bit values data, and binascii.Error if the input ran out (ended is
\* FALSE) inside a quad
A2BBytes(data, ended) ==
    LET m == Len(data)
        byte(g, r) ==
            IF r = 0 THEN data[4 * g + 1] * 4 + (data[4 * g + 2] \div 16)
            ELSE IF r = 1 THEN (data[4 * g + 2] % 16) * 16 + (data[4 * g + 3] \div 4)
            ELSE (data[4 * g + 3] % 4) * 64 + data[4 * g + 4]
    IN  [exc   |-> IF ~ended /\ m % 4 # 0 THEN "binascii.Error" ELSE "none",
         value |-> [k \in 1..(3 * (m \div 4) + (IF m % 4 >= 2 THEN (m % 4) - 1 ELSE 0)) |->
                       byte((k - 1) \div 3, (k - 1) % 3)]]

A2BUpTo(s, stop) ==
    A2BBytes(SelectSeq([i \in 1..(stop - 1) |-> B64Value(s[i])], LAMBDA v : v < 64),
             stop <= Len(s))

A2B(s) == A2BUpTo(s, A2BStop(s))

\* base64.b64decode(s) of a str: the str must be ASCII (ValueError otherwise)
B64Decode(s) ==
    IF \E i \in 1..Len(s) : s[i] > 127 THEN [exc |-> "ValueError", value |-> <<>>]
    ELSE A2B(s)

----------------------------------------------------------------------------
(* encode.py *)

\* SUPPORTED_VERSIONS of encode.py
ENCODE_SUPPORTED_VERSIONS == {2}

\* Encoder.header_size
header_size == 3

\* Encoder.prefix, Decoder.prefix: 'ADC'
prefix == <<65, 68, 67>>

\* The hard limit of the name, in characters
NameLimit == 63

\* a | b where b >= 0 and a is any Python int (two's complement, unbounded)
PyOr(a, b) ==
    IF a >= 0 THEN BitOr(a, b)
    ELSE (0 - 1) - (((0 - 1) - a) - BitAnd((0 - 1) - a, b))

\* _extract_n_bits that sets the carry bit only above the limit
_extract_n_bits_above(value, num_bits) ==
    LET limit_bit == Shl(1, num_bits)
        result    == IF value >= 0 THEN BitAnd(value, limit_bit - 1) ELSE value % limit_bit
    IN  IF value > limit_bit THEN BitOr(result, limit_bit) ELSE result

\* _extract_n_bits
_extract_n_bits(value, num_bits) ==
    LET limit_bit == Shl(1, num_bits)
        result    == IF value >= 0 THEN BitAnd(value, limit_bit - 1) ELSE value % limit_bit
    IN  IF value >= limit_bit THEN BitOr(result, limit_bit) ELSE result

\* bytearray.append(x) on a buffer [bin, exc, msg]: ValueError unless 0 <= x < 256.
\* A buffer that already holds an exception is left as it is (the call never runs).
BufAppend(b, x) ==
    IF b.exc # "none" THEN b
    ELSE IF x >= 0 /\ x < 256 THEN [b EXCEPT !.bin = Append(@, x)]
    ELSE [b EXCEPT !.exc = "ValueError", !.msg = "byte must be in range(0, 256)"]

\* The while loop of _add_remaining_bits_from_number
RECURSIVE AddBitsLoop(_, _)
AddBitsLoop(b, value) ==
    IF value > 0 /\ b.exc = "none"
    THEN AddBitsLoop(BufAppend(b, _extract_n_bits(value, 7)), Shr(value, 7))
    ELSE b

\* Encoder._add_remaining_bits_from_number
_add_remaining_bits_from_number(b, value, already_written_bits) ==
    AddBitsLoop(b, Shr(value, already_written_bits))

\* max count in the first byte
first_byte_max_count == 3

\* A test for the extended count that is late by one
extended_count_late(count_or_turn) == (count_or_turn - 1) > first_byte_max_count

\* extended_count of Encoder._add_card: whether the count (or turn) exceeds the max
extended_count(count_or_turn) == (count_or_turn - 1) >= first_byte_max_count

\* Encoder._add_card
_add_card(b, count_or_turn, value) ==
    LET first_byte_count     == IF extended_count(count_or_turn) THEN first_byte_max_count
                                ELSE count_or_turn - 1
        first_byte           == PyOr(Shl(first_byte_count, 6), _extract_n_bits(value, 5))
        \* with the count (or turn) in its own bytes when it did not fit the first byte
        counted(b2) == IF extended_count(count_or_turn)
                       THEN _add_remaining_bits_from_number(b2, count_or_turn, 0)
                       ELSE b2
        \* count_bytes_end - bytes_start > 11
        checked(b3, bytes_start) ==
            IF b3.exc = "none" /\ Len(b3.bin) - bytes_start > 11
            THEN [b3 EXCEPT !.exc = "DeckEncodeException", !.msg = "entry"]
            ELSE b3
    IN  checked(counted(_add_remaining_bits_from_number(BufAppend(b, first_byte), value, 5)),
                Len(b.bin))

\* The loop of Encoder._encode that serializes the heroes
RECURSIVE AddHeroes(_, _, _)
AddHeroes(b, heroes, previous_card_id) ==
    IF heroes = <<>> \/ b.exc # "none" THEN b
    ELSE AddHeroes(_add_card(b, Head(heroes).turn, Head(heroes).id - previous_card_id),
                   Tail(heroes), Head(heroes).id)

\* The loop of Encoder._encode that serializes the cards
RECURSIVE AddCards(_, _, _)
AddCards(b, cards, previous_card_id) ==
    IF cards = <<>> \/ b.exc # "none" THEN b
    ELSE AddCards(_add_card(b, Head(cards).count, Head(cards).id - previous_card_id),
                  Tail(cards), Head(cards).id)

\* Replaces s[i] (0-based) by x
SetAt(s, i, x) == [s EXCEPT ![i + 1] = x]

\* Encoder._encode on the Encoder e: the buffer it leaves in self.binary, with the
\* exception that ended it.  It appends to whatever self.binary already holds.
_encode(e) ==
    LET version == BitOr(Shl(e.version, 4), _extract_n_bits(Len(e.heroes), 3))
        \* self.binary[checksum_index] = sum(self.binary[header_size:name_start_index]) & 255
        summed(b, checksum_index, name_start_index) ==
            [b EXCEPT !.bin = SetAt(@, checksum_index,
                 BitAnd(SumSeq(PySlice(@, header_size, name_start_index)), 255))]
        \* the name bytes are appended at name_start_index
        named(b, checksum_index) ==
            IF b.exc # "none" THEN b
            ELSE summed([b EXCEPT !.bin = @ \o Utf8Encode(e.name)], checksum_index, Len(b.bin))
        \* the checksum placeholder, the name length, the rest of the hero count, the
        \* heroes, the cards
        body(b1) ==
            named(AddCards(
                      AddHeroes(
                          _add_remaining_bits_from_number(
                              BufAppend(BufAppend(b1, 0), Len(e.name)), Len(e.heroes), 3),
                          e.heroes, 0),
                      e.cards, 0),
                  Len(b1.bin))
    IN  body(BufAppend([bin |-> e.binary, exc |-> "none", msg |-> ""], version))

\* Encoder.__init__
EncoderNew(deck_contents, version) ==
    [version |-> version,
     heroes  |-> SortedById(deck_contents.heroes),
     cards   |-> SortedById(deck_contents.cards),
     name    |-> StripTags(PyHead(deck_contents.name, NameLimit)),
     binary  |-> <<>>]

\* The text Encoder.deck_code makes of the bytes: base64, the prefix, then
\* replace('/', '-').replace('=', '_')
DeckCodeText(bin) ==
    ReplaceChar(ReplaceChar(prefix \o B64Encode(bin), SLASH, DASH), EQUALS, UNDERSCORE)

\* Encoder.deck_code: [enc, exc, msg, value], enc the Encoder after the read
deck_code(e) ==
    LET read(b) == [enc   |-> [e EXCEPT !.binary = b.bin],
                    exc   |-> b.exc,
                    msg   |-> b.msg,
                    value |-> IF b.exc = "none" THEN DeckCodeText(b.bin) ELSE <<>>]
    IN  read(_encode(e))

\* encode_deck(deck_contents, version)
encode_deck(deck_contents, version) == deck_code(EncoderNew(deck_contents, version))

----------------------------------------------------------------------------
(* decode.py *)

\* A version list that also admits version 3
DECODE_SUPPORTED_VERSIONS_3 == {1, 2, 3}

\* SUPPORTED_VERSIONS of decode.py
DECODE_SUPPORTED_VERSIONS == {1, 2}

\* _read_bits_chunk: [value, more]
_read_bits_chunk(chunk, numb_bits, curr_shift, out_bits) ==
    LET continue_bit == Shl(1, numb_bits)
        new_bits     == BitAnd(chunk, continue_bit - 1)
    IN  [value |-> BitOr(out_bits, Shl(new_bits, curr_shift)),
         more  |-> BitAnd(chunk, continue_bit) # 0]

\* The while loop of Decoder._read_var_encoded.  hi is the highest index of the bytes
\* read so far (bookkeeping of the model, -1 for none).
RECURSIVE ReadVarLoop(_, _, _, _, _, _)
ReadVarLoop(binary, index, max_index, delta_shift, value, hi) ==
    IF index > max_index THEN
        [exc |-> "DeckDecodeException", msg |-> "variable", value |-> value,
         index |-> index, hi |-> hi]
    ELSE IF index >= Len(binary) THEN
        [exc |-> "IndexError", msg |-> "variable", value |-> value,
         index |-> index, hi |-> hi]
    ELSE LET next_byte == At(binary, index)
             r == _read_bits_chunk(next_byte, 7, delta_shift, value)
             h == IF index > hi THEN index ELSE hi
         IN  IF ~r.more
             THEN [exc |-> "none", msg |-> "", value |-> r.value, index |-> index + 1,
                   hi |-> h]
             ELSE ReadVarLoop(binary, index + 1, max_index, delta_shift + 7, r.value, h)

\* Decoder._read_var_encoded: [exc, msg, value, index, hi]
_read_var_encoded(binary, base_value, base_bits, index, max_index, hi) ==
    LET from(r) ==
            IF base_bits = 0 \/ r.more
            THEN ReadVarLoop(binary, index, max_index, base_bits, r.value, hi)
            ELSE [exc |-> "none", msg |-> "", value |-> r.value, index |-> index, hi |-> hi]
    IN  from(_read_bits_chunk(base_value, base_bits, 0, 0))

\* Decoder._read_serialized_card with the cursor c = [index, base, hi] (_current_index,
\* _previous_card_base): [exc, msg, count, id, index, base, hi]
_read_serialized_card(binary, c, read_until_index) ==
    LET fail(exc, msg, index, hi) ==
            [exc |-> exc, msg |-> msg, count |-> 0, id |-> 0, index |-> index,
             base |-> c.base, hi |-> hi]
        \* self._previous_card_base = card_id; return count, card_id
        counted(delta, cnt) ==
            IF cnt.exc # "none" THEN fail(cnt.exc, cnt.msg, delta.index, cnt.hi)
            ELSE [exc |-> "none", msg |-> "", count |-> cnt.value,
                  id |-> c.base + delta.value, index |-> cnt.index,
                  base |-> c.base + delta.value, hi |-> cnt.hi]
        \* the count: from the next bytes if the header says 3, else from the header
        withDelta(header, delta) ==
            IF delta.exc # "none" THEN fail(delta.exc, delta.msg, c.index + 1, delta.hi)
            ELSE counted(delta,
                     IF Shr(header, 6) = 3
                     THEN _read_var_encoded(binary, 0, 0, delta.index, read_until_index,
                                            delta.hi)
                     ELSE [exc |-> "none", msg |-> "", value |-> Shr(header, 6) + 1,
                           index |-> delta.index, hi |-> delta.hi])
        \* the card id delta
        withHeader(header) ==
            withDelta(header,
                      _read_var_encoded(binary, header, 5, c.index + 1, read_until_index,
                                        IF c.index > c.hi THEN c.index ELSE c.hi))
    IN  IF c.index > read_until_index
        THEN fail("DeckDecodeException", "card", c.index, c.hi)
        ELSE IF c.index >= Len(binary)
        THEN fail("IndexError", "card", c.index, c.hi)
        ELSE withHeader(At(binary, c.index))

\* The for loop of Decoder._parse_deck: n more heroes from the cursor c.
\* [exc, msg, list, index, hi]
RECURSIVE ReadHeroes(_, _, _, _, _)
ReadHeroes(binary, n, c, total_card_bytes, heroes) ==
    LET next(r) ==
            IF r.exc # "none"
            THEN [exc |-> r.exc, msg |-> r.msg, list |-> heroes, index |-> r.index,
                  hi |-> r.hi]
            ELSE ReadHeroes(binary, n - 1, [index |-> r.index, base |-> r.base, hi |-> r.hi],
                            total_card_bytes,
                            Append(heroes, [id |-> r.id, turn |-> r.count]))
    IN  IF n <= 0 THEN [exc |-> "none", msg |-> "", list |-> heroes, index |-> c.index,
                        hi |-> c.hi]
        ELSE next(_read_serialized_card(binary, c, total_card_bytes))

\* The while loop of Decoder._parse_deck: cards until the cursor leaves the card bytes
RECURSIVE ReadCards(_, _, _, _)
ReadCards(binary, c, total_card_bytes, cards) ==
    LET next(r) ==
            IF r.exc # "none"
            THEN [exc |-> r.exc, msg |-> r.msg, list |-> cards, index |-> r.index,
                  hi |-> r.hi]
            ELSE ReadCards(binary, [index |-> r.index, base |-> r.base, hi |-> r.hi],
                           total_card_bytes,
                           Append(cards, [id |-> r.id, count |-> r.count]))
    IN  IF ~(c.index < total_card_bytes)
        THEN [exc |-> "none", msg |-> "", list |-> cards, index |-> c.index, hi |-> c.hi]
        ELSE next(_read_serialized_card(binary, c, Len(binary)))

\* An attribute that has not been assigned yet
Unset == 0 - 1

NoContents == [name |-> <<>>, heroes |-> <<>>, cards |-> <<>>]

\* Decoder.__init__.  pc is the method deck_contents calls next ("returned", "raised"
\* once the property is done); exc and msg hold the exception that ended it; hi is the
\* highest index _parse_deck read an entry byte from.
DecoderNew(code) ==
    [deck_code |-> code, _binary |-> <<>>,
     _version_and_heroes |-> Unset, version |-> Unset, _name_length |-> Unset,
     _card_bytes_start_index |-> Unset, _total_card_bytes |-> Unset,
     _heroes_count |-> Unset, _current_index |-> Unset, _previous_card_base |-> Unset,
     _deck_contents |-> NoContents,
     pc |-> "_decode_string", exc |-> "none", msg |-> "", hi |-> Unset]

Raise(d, exc, msg) == [d EXCEPT !.pc = "raised", !.exc = exc, !.msg = msg]

\* Decoder._decode_string
_decode_string(d) ==
    LET binary(decoded) ==
            IF decoded.exc # "none" THEN Raise(d, decoded.exc, "b64decode")
            ELSE IF decoded.value = <<>>
                THEN Raise([d EXCEPT !._binary = decoded.value],
                           "InvalidDeckString", "no binary data")
            ELSE [d EXCEPT !._binary = decoded.value, !.pc = "_get_version_and_heroes"]
    IN  IF ~StartsWith(d.deck_code, prefix)
        THEN Raise(d, "InvalidDeckString", "prefix")
        ELSE binary(B64Decode(
                 ReplaceChar(ReplaceChar(LStrip(d.deck_code, {prefix[i] : i \in 1..Len(prefix)}),
                                         DASH, SLASH),
                             UNDERSCORE, EQUALS)))

\* A version check that comes after the checksum of the card bytes
_get_version_and_heroes_late(d) ==
    LET vh == At(d._binary, 0)
        d1 == [d EXCEPT !._version_and_heroes = vh, !.version = Shr(vh, 4)]
    IN  IF Len(d._binary) > 2
             /\ At(d._binary, 1) # BitAnd(SumSeq(PySlice(d._binary, 3, Len(d._binary))), 255)
        THEN Raise(d1, "InvalidDeckString", "checksum")
        ELSE IF d1.version \notin DECODE_SUPPORTED_VERSIONS
        THEN Raise(d1, "InvalidDeckString", "version")
        ELSE [d1 EXCEPT !.pc = "_get_lengths_and_calc_checksum"]

\* Decoder._get_version_and_heroes
_get_version_and_heroes(d) ==
    LET vh == At(d._binary, 0)
        d1 == [d EXCEPT !._version_and_heroes = vh, !.version = Shr(vh, 4)]
    IN  IF d1.version \notin DECODE_SUPPORTED_VERSIONS
        THEN Raise(d1, "InvalidDeckString", "version")
        ELSE [d1 EXCEPT !.pc = "_get_lengths_and_calc_checksum"]

\* A checksum that keeps 7 bits of the sum
ComputedChecksum7(binary, start, total) == BitAnd(SumSeq(PySlice(binary, start, total)), 127)

\* computed_checksum & 0xFF of Decoder._get_lengths_and_calc_checksum:
\* sum(b for b in self._binary[start:total]) & 0xFF
ComputedChecksum(binary, start, total) == BitAnd(SumSeq(PySlice(binary, start, total)), 255)

\* Decoder._get_lengths_and_calc_checksum
_get_lengths_and_calc_checksum(d) ==
    LET \* the checksum of the card bytes against byte 1
        check(d2) ==
            IF At(d._binary, 1) #
                   ComputedChecksum(d._binary, d2._card_bytes_start_index,
                                    d2._total_card_bytes)
            THEN Raise(d2, "InvalidDeckString", "checksum")
            ELSE [d2 EXCEPT !.pc = "_parse_deck"]
        total(d1) == check([d1 EXCEPT !._total_card_bytes = Len(d._binary) - d1._name_length])
    IN  IF Len(d._binary) <= 2
        THEN Raise(IF d.version = 1 THEN [d EXCEPT !._name_length = 0] ELSE d,
                   "IndexError", "byte 2")
        ELSE IF d.version = 1
            THEN total([d EXCEPT !._name_length = 0, !._card_bytes_start_index = 2])
        ELSE total([d EXCEPT !._name_length = At(d._binary, 2),
                             !._card_bytes_start_index = 3])

\* Decoder._parse_deck
_parse_deck(d) ==
    LET \* the name, if it is present, and the deck contents
        named(d2, heroes, cards, name) ==
            IF name.exc # "none" THEN Raise(d2, name.exc, "name")
            ELSE [d2 EXCEPT !._deck_contents =
                                [name |-> name.value, heroes |-> heroes.list,
                                 cards |-> cards.list],
                            !.pc = "returned"]
        withCards(d1, heroes, cards) ==
            IF cards.exc # "none"
            THEN Raise([d1 EXCEPT !._current_index = cards.index, !.hi = cards.hi],
                       cards.exc, cards.msg)
            ELSE named([d1 EXCEPT !._current_index = cards.index, !.hi = cards.hi,
                                  !._previous_card_base =
                                      IF cards.list = <<>> THEN 0
                                      ELSE cards.list[Len(cards.list)].id],
                       heroes, cards,
                       IF d._name_length # 0
                       THEN (LET stripped(text) ==
                                     [text EXCEPT !.value = StripTags(text.value)]
                             IN  stripped(Utf8Decode(PyTail(d._binary, d._name_length))))
                       ELSE [exc |-> "none", value |-> <<>>])
        withHeroes(d1, heroes) ==
            IF heroes.exc # "none"
            THEN Raise([d1 EXCEPT !._current_index = heroes.index, !.hi = heroes.hi],
                       heroes.exc, heroes.msg)
            ELSE withCards(d1, heroes,
                           ReadCards(d._binary,
                                     [index |-> heroes.index, base |-> 0, hi |-> heroes.hi],
                                     d._total_card_bytes, <<>>))
        withCount(count) ==
            IF count.exc # "none" THEN Raise([d EXCEPT !.hi = count.hi], count.exc, count.msg)
            ELSE withHeroes([d EXCEPT !._heroes_count = count.value,
                                      !._current_index = count.index],
                            ReadHeroes(d._binary, count.value,
                                       [index |-> count.index, base |-> 0, hi |-> count.hi],
                                       d._total_card_bytes, <<>>))
    IN  withCount(_read_var_encoded(d._binary, d._version_and_heroes, 3,
                                    d._card_bytes_start_index, d._total_card_bytes, Unset))

\* One step of the property Decoder.deck_contents
DecoderStep(d) ==
    IF d.pc = "_decode_string" THEN _decode_string(d)
    ELSE IF d.pc = "_get_version_and_heroes" THEN _get_version_and_heroes(d)
    ELSE IF d.pc = "_get_lengths_and_calc_checksum" THEN _get_lengths_and_calc_checksum(d)
    ELSE IF d.pc = "_parse_deck" THEN _parse_deck(d)
    ELSE d

\* Decoder.deck_contents, run to its end
RECURSIVE deck_contents(_)
deck_contents(d) == IF d.pc \in {"returned", "raised"} THEN d ELSE deck_contents(DecoderStep(d))

\* decode_deck_string(deck_code): the Decoder once deck_contents has returned or raised
decode_deck_string(code) == deck_contents(DecoderNew(code))

----------------------------------------------------------------------------
(* _context.py, sets_and_cards.py: the catalogue of cards *)

\* Python's None, where a string is expected
None == "None"

\* str.lower(), on the letters A to Z
Lower(s) == [i \in 1..Len(s) |-> IF s[i] \in 65..90 THEN s[i] + 32 ELSE s[i]]

\* A dict: a function of its keys.  {} and d[k] = v
EmptyDict == [k \in {} |-> 0]

DictSet(d, k, v) == [x \in DOMAIN d \cup {k} |-> IF x = k THEN v ELSE d[x]]

\* What ctx.cards_by_name holds under a key: a list of cards, or (assigned by
\* CardSetData.__init__) one card, kept in items
ListValue(items) == [is_list |-> TRUE, items |-> items]

CardValue(card) == [is_list |-> FALSE, items |-> <<card>>]

\* Context.all_sets
all_sets == <<"00", "01">>

\* Context.__init__
Context ==
    [cards_by_id |-> EmptyDict, cards_by_name |-> EmptyDict, loaded_sets |-> <<>>]

\* sorted(a) == sorted(b): the same elements, each as many times
SortedEqual(a, b) ==
    /\ Len(a) = Len(b)
    /\ \A x \in {a[i] : i \in 1..Len(a)} \cup {b[i] : i \in 1..Len(b)} :
          Cardinality({i \in 1..Len(a) : a[i] = x}) = Cardinality({i \in 1..Len(b) : b[i] = x})

\* STR_TO_CARD_TYPE: the class of each card type
STR_TO_CARD_TYPE ==
    [t \in {"Hero", "Passive Ability", "Spell", "Creep", "Ability", "Item", "Improvement"} |->
        IF t = "Passive Ability" THEN "PassiveAbility" ELSE t]

\* The classes that inherit from ColoredCard, NotAbility and Castable
ColoredCard == {"Hero", "Spell", "Creep", "Improvement"}

NotAbility == {"Hero", "Spell", "Creep", "Item", "Improvement"}

Castable == {"Spell", "Creep", "Improvement"}

\* The colours ColoredCard.__init__ sets: 'blue', 'black', 'red', 'green', 'unknown'
blue == <<98, 108, 117, 101>>

black == <<98, 108, 97, 99, 107>>

red == <<114, 101, 100>>

green == <<103, 114, 101, 101, 110>>

unknown == <<117, 110, 107, 110, 111, 119, 110>>

\* ColoredCard.__init__: flags holds the keys among is_blue, is_black, is_red and
\* is_green that the card data gives as true
ColoredCardInit(flags) ==
    IF "is_blue" \in flags THEN blue
    ELSE IF "is_black" \in flags THEN black
    ELSE IF "is_red" \in flags THEN red
    ELSE IF "is_green" \in flags THEN green
    ELSE unknown

\* type_of_card(**card): the instance of the class of the card's type.  The attributes
\* that the __init__ of the class does not set are absent (see hasattr) and hold a filler.
NewCard(card) ==
    LET class == STR_TO_CARD_TYPE[card.card_type]
    IN  [class     |-> class,
         id        |-> card.card_id,
         base_id   |-> card.base_card_id,
         name      |-> card.card_name,
         type      |-> card.card_type,
         color     |-> IF class \in ColoredCard THEN ColoredCardInit(card.flags) ELSE <<>>,
         rarity    |-> IF class \in NotAbility THEN card.rarity ELSE None,
         mana_cost |-> IF class \in Castable THEN card.mana_cost ELSE 0,
         gold_cost |-> IF class = "Item" THEN card.gold_cost ELSE 0,
         sub_type  |-> IF class = "Item" THEN card.sub_type ELSE ""]

\* hasattr(card, attr) for the attributes the filters read
hasattr(card, attr) ==
    IF attr = "color" THEN card.class \in ColoredCard
    ELSE IF attr = "rarity" THEN card.class \in NotAbility
    ELSE IF attr = "mana_cost" THEN card.class \in Castable
    ELSE IF attr \in {"gold_cost", "sub_type"} THEN card.class = "Item"
    ELSE attr \in {"class", "id", "base_id", "name", "type"}

\* CardSetData.not_indexed
not_indexed == {"Stronghold", "Pathing"}

\* The loop of CardSetData.__init__ over data['card_list']: [ctx, card_list]
RECURSIVE CardSetData(_, _, _)
CardSetData(c, card_list, data) ==
    IF data = <<>> THEN [ctx |-> c, card_list |-> card_list]
    ELSE IF Head(data).card_type \in not_indexed THEN CardSetData(c, card_list, Tail(data))
    ELSE LET card_instance == NewCard(Head(data))
         IN  CardSetData(
                 [c EXCEPT !.cards_by_id = DictSet(@, Head(data).base_card_id, card_instance),
                           !.cards_by_name = DictSet(@, Lower(Head(data).card_name),
                                                     CardValue(card_instance))],
                 Append(card_list, card_instance), Tail(data))

----------------------------------------------------------------------------
(* api_sync.py *)

\* Cards.__init__(limit_sets): limit_sets <<>> is None (or an empty list)
CardsNew(limit_sets) ==
    [_set_numbers   |-> IF limit_sets = <<>> THEN all_sets ELSE limit_sets,
     cards_expanded |-> <<>>]

\* The two loops of Cards.load_all_sets: every set is loaded from what the card API
\* answers for it, then the cards of every set are appended to __cards_expanded
RECURSIVE LoadSets(_, _, _, _)
LoadSets(c, set_numbers, answers, expanded) ==
    IF set_numbers = <<>> THEN [ctx |-> c, cards_expanded |-> expanded]
    ELSE LET loaded == CardSetData(c, <<>>, answers[Head(set_numbers)])
         IN  LoadSets(loaded.ctx, Tail(set_numbers), answers, expanded \o loaded.card_list)

\* Cards.load_all_sets: [ctx, self]
load_all_sets(self, c, answers) ==
    LET loaded == LoadSets([c EXCEPT !.cards_by_id = EmptyDict, !.cards_by_name = EmptyDict],
                           self._set_numbers, answers, <<>>)
    IN  [ctx  |-> [loaded.ctx EXCEPT !.loaded_sets = self._set_numbers],
         self |-> [self EXCEPT !.cards_expanded = loaded.cards_expanded]]

\* The first loop of Cards.load_all_sets when the card API raises for the set failed:
\* the sets before it are loaded, set_.load() raises for it
RECURSIVE LoadSetsUntil(_, _, _, _)
LoadSetsUntil(c, set_numbers, answers, failed) ==
    IF set_numbers = <<>> \/ Head(set_numbers) = failed THEN c
    ELSE LoadSetsUntil(CardSetData(c, <<>>, answers[Head(set_numbers)]).ctx,
                       Tail(set_numbers), answers, failed)

\* Cards.load_all_sets that the exception of set_.load() ends: the two indexes were
\* emptied and hold the sets loaded before it, ctx.loaded_sets was not assigned,
\* __cards_expanded is empty.  [ctx, self]
load_all_sets_raises(self, c, answers, failed) ==
    [ctx  |-> LoadSetsUntil([c EXCEPT !.cards_by_id = EmptyDict, !.cards_by_name = EmptyDict],
                            self._set_numbers, answers, failed),
     self |-> [self EXCEPT !.cards_expanded = <<>>]]

\* Cards.get(name, ignore_shared_name): [ctx, exc, msg, is_list, items], items the card
\* returned or the cards of the list returned.  ctx.cards_by_name is a defaultdict(list):
\* reading a key it has not adds the key with an empty list.
Cards_get(c, name, ignore_shared_name) ==
    LET key == Lower(name)
        c1 == IF key \in DOMAIN c.cards_by_name THEN c
              ELSE [c EXCEPT !.cards_by_name = DictSet(@, key, ListValue(<<>>))]
        cards_found == c1.cards_by_name[key]
        hits == {i \in 1..Len(cards_found.items) : cards_found.items[i].class \in NotAbility}
        first == CHOOSE i \in hits : \A j \in hits : i <= j
        result(exc, msg, is_list, items) ==
            [ctx |-> c1, exc |-> exc, msg |-> msg, is_list |-> is_list, items |-> items]
    IN  IF ignore_shared_name
        THEN IF ~cards_found.is_list
             THEN result("TypeError", "object is not iterable", FALSE, <<>>)
             ELSE IF hits # {} THEN result("none", "", FALSE, <<cards_found.items[first]>>)
             ELSE IF cards_found.items = <<>>
             THEN result("IndexError", "list index out of range", FALSE, <<>>)
             ELSE result("none", "", FALSE, <<cards_found.items[1]>>)
        ELSE result("none", "", cards_found.is_list, cards_found.items)

----------------------------------------------------------------------------
(* filtering.py *)

\* convert_card_type(type_) of a string: [exc, msg, class]
convert_card_type(type_) ==
    IF type_ \in DOMAIN STR_TO_CARD_TYPE
    THEN [exc |-> "none", msg |-> "", class |-> STR_TO_CARD_TYPE[type_]]
    ELSE [exc |-> "UnknownFilterArgument", msg |-> "Unrecognized card type", class |-> ""]

\* convert_card_types(card_types): [exc, msg, classes]
convert_card_types(card_types) ==
    IF \A i \in 1..Len(card_types) : convert_card_type(card_types[i]).exc = "none"
    THEN [exc |-> "none", msg |-> "",
          classes |-> {convert_card_type(card_types[i]).class : i \in 1..Len(card_types)}]
    ELSE [exc |-> "UnknownFilterArgument", msg |-> "Unrecognized card type", classes |-> {}]

\* CardFilter.__init__(cards=cards): list(cards) if cards else list()
CardFilterNew(cards_arg) == [cards |-> cards_arg, _filtered |-> <<>>]

\* What a filter method gives: the CardFilter it was called on after the call, the
\* exception raised, the CardFilter(cards=self._filtered) returned
Filtered(self, appended) ==
    LET after == [self EXCEPT !._filtered = @ \o appended]
    IN  [self |-> after, exc |-> "none", msg |-> "", returned |-> CardFilterNew(after._filtered)]

FilterRaised(self, exc, msg) ==
    [self |-> self, exc |-> exc, msg |-> msg, returned |-> CardFilterNew(<<>>)]

\* CardFilter.type(type_, filter_out)
CardFilter_type(self, type_, filter_out) ==
    LET converted == convert_card_type(type_)
        isinstance(card) == card.class = converted.class
        test(card) == IF filter_out THEN ~isinstance(card) ELSE isinstance(card)
    IN  IF converted.exc # "none" THEN FilterRaised(self, converted.exc, converted.msg)
        ELSE Filtered(self, SelectSeq(self.cards, test))

\* CardFilter.types_in(card_types)
CardFilter_types_in(self, card_types) ==
    LET converted == convert_card_types(card_types)
        test(card) == card.class \in converted.classes
    IN  IF converted.exc # "none" THEN FilterRaised(self, converted.exc, converted.msg)
        ELSE Filtered(self, SelectSeq(self.cards, test))

\* CardFilter.types_not_in(card_types)
CardFilter_types_not_in(self, card_types) ==
    LET converted == convert_card_types(card_types)
        test(card) == card.class \notin converted.classes
    IN  IF converted.exc # "none" THEN FilterRaised(self, converted.exc, converted.msg)
        ELSE Filtered(self, SelectSeq(self.cards, test))

\* CardFilter.rarity(rarity)
CardFilter_rarity(self, rarity_arg) ==
    LET test(card) == hasattr(card, "rarity") /\ card.rarity = rarity_arg
    IN  Filtered(self, SelectSeq(self.cards, test))

\* CardFilter.rarity_in(rarities)
CardFilter_rarity_in(self, rarities) ==
    LET test(card) ==
            hasattr(card, "rarity") /\ \E i \in 1..Len(rarities) : card.rarity = rarities[i]
    IN  Filtered(self, SelectSeq(self.cards, test))

\* CardFilter.rarity_not_in(rarities)
CardFilter_rarity_not_in(self, rarities) ==
    LET test(card) ==
            hasattr(card, "rarity") /\ ~\E i \in 1..Len(rarities) : card.rarity = rarities[i]
    IN  Filtered(self, SelectSeq(self.cards, test))

\* CardFilter.color(color)
CardFilter_color(self, color_arg) ==
    LET test(card) == hasattr(card, "color") /\ card.color = Lower(color_arg)
    IN  Filtered(self, SelectSeq(self.cards, test))

\* CardFilter.color_in(colors)
CardFilter_color_in(self, colors_arg) ==
    LET colors == [i \in 1..Len(colors_arg) |-> Lower(colors_arg[i])]
        test(card) == hasattr(card, "color") /\ \E i \in 1..Len(colors) : card.color = colors[i]
    IN  Filtered(self, SelectSeq(self.cards, test))

\* CardFilter.color_not_in(colors)
CardFilter_color_not_in(self, colors_arg) ==
    LET colors == [i \in 1..Len(colors_arg) |-> Lower(colors_arg[i])]
        test(card) == hasattr(card, "color") /\ ~\E i \in 1..Len(colors) : card.color = colors[i]
    IN  Filtered(self, SelectSeq(self.cards, test))

\* The if/elif chain of mana_cost and gold_cost: every branch appends the card.  kw holds
\* the keyword arguments that were passed (the others are None).
CostTest(cost, kw) ==
    \/ "gt" \in DOMAIN kw /\ cost > kw["gt"]
    \/ "gte" \in DOMAIN kw /\ cost >= kw["gte"]
    \/ "lt" \in DOMAIN kw /\ cost < kw["lt"]
    \/ "lte" \in DOMAIN kw /\ cost <= kw["lte"]
    \/ "eq" \in DOMAIN kw /\ cost = kw["eq"]

\* CardFilter.mana_cost(gt, gte, lt, lte, eq)
CardFilter_mana_cost(self, kw) ==
    LET test(card) == hasattr(card, "mana_cost") /\ CostTest(card.mana_cost, kw)
    IN  Filtered(self, SelectSeq(self.cards, test))

\* CardFilter.gold_cost(gt, gte, lt, lte, eq)
CardFilter_gold_cost(self, kw) ==
    LET test(card) == hasattr(card, "gold_cost") /\ CostTest(card.gold_cost, kw)
    IN  Filtered(self, SelectSeq(self.cards, test))

\* CardFilter.sub_type(sub_type): getattr(card, 'sub_type') has no default, so the loop
\* ends with AttributeError at the first card without the attribute; the cards it appended
\* to self._filtered before that stay there
CardFilter_sub_type(self, sub_type_arg) ==
    LET without == {i \in 1..Len(self.cards) : ~hasattr(self.cards[i], "sub_type")}
        stop == CHOOSE i \in without : \A j \in without : i <= j
        test(card) == card.sub_type = sub_type_arg
    IN  IF without = {} THEN Filtered(self, SelectSeq(self.cards, test))
        ELSE [FilterRaised(self, "AttributeError", "object has no attribute 'sub_type'")
                 EXCEPT !.self._filtered = @ \o SelectSeq(SubSeq(self.cards, 1, stop - 1), test)]

----------------------------------------------------------------------------
(* deck.py *)

\* A Deck is [exc, msg, deck_contents]: the exception its construction raised ("none": it
\* was built) and its deck_contents

\* ctx.cards_by_id[entry['id']] for every entry of a list of Deck._enrich, in order
AllKnown(c, entries) == \A i \in 1..Len(entries) : entries[i].id \in DOMAIN c.cards_by_id

\* Deck._enrich: HeroDeckType(instance, turn, id) and CardDeckType(instance, count, id)
\* for every entry, under the same name
_enrich(c, contents) ==
    IF ~AllKnown(c, contents.heroes) \/ ~AllKnown(c, contents.cards)
    THEN [exc |-> "KeyError", msg |-> "id", deck_contents |-> contents]
    ELSE [exc |-> "none", msg |-> "",
          deck_contents |->
              [name   |-> contents.name,
               heroes |-> [i \in 1..Len(contents.heroes) |->
                              [instance |-> c.cards_by_id[contents.heroes[i].id],
                               turn |-> contents.heroes[i].turn,
                               id |-> contents.heroes[i].id]],
               cards  |-> [i \in 1..Len(contents.cards) |->
                              [instance |-> c.cards_by_id[contents.cards[i].id],
                               count |-> contents.cards[i].count,
                               id |-> contents.cards[i].id]]]]

\* Deck.__init__(deck_contents)
DeckNew(c, contents) ==
    IF ~SortedEqual(c.loaded_sets, all_sets)
    THEN [exc |-> "PyArtifactException", msg |-> "all sets musts be loaded",
          deck_contents |-> NoContents]
    ELSE _enrich(c, contents)

\* Deck.from_code(deck_code); Deck.loads is the same function
Deck_from_code(c, code) ==
    LET decoded == decode_deck_string(code)
    IN  IF decoded.pc = "raised"
        THEN [exc |-> decoded.exc, msg |-> decoded.msg, deck_contents |-> NoContents]
        ELSE DeckNew(c, decoded._deck_contents)

\* The property Deck.deck_code: encode_deck(self.deck_contents), at the default version
\* SUPPORTED_VERSIONS[-1]
Deck_deck_code(self) ==
    LET r == encode_deck(self.deck_contents, 2)
    IN  [exc |-> r.exc, msg |-> r.msg, value |-> r.value]

\* Deck.dumps()
Deck_dumps(self) == Deck_deck_code(self)

\* str(deck).  __str__ is bound to the property object deck_code: the property is read,
\* and the str it gives is then called as the method
Deck___str__(self) ==
    LET read == Deck_deck_code(self)
    IN  IF read.exc # "none" THEN read
        ELSE [exc |-> "TypeError", msg |-> "'str' object is not callable", value |-> <<>>]

----------------------------------------------------------------------------
(* The inputs of the model *)

\* Longest list of heroes, and of cards, a caller passes (beside the one long list)
MaxHeroes == 2
MaxCards == 2
\* Longest free tail of a name, after its padding
MaxTail == 2
\* Reads of Encoder.deck_code on one Encoder, after the first
MaxReads == 2
\* Longest run of bytes after the two header bytes of a payload that is not encoder output
MaxRest == 4
\* Most bytes of such a payload that have bit 7 set (each can continue a varint)
MaxHighBytes == 1
\* Longest text after the prefix of a deck code given as text
MaxText == 4

\* The least number of heroes whose count does not fit the 3 bits of byte 0
HeroCountOverflow == 8

SeqsUpTo(S, n) == UNION {[1..k -> S] : k \in 0..n}

\* 'a' * n
Pad(n) == [i \in 1..n |-> 97]

\* 'a', '<', '>', 'é'
NameChars == {97, LT, GT, 233}

\* Names around the limit of 63 characters: a padding of 0, 61 or 62 'a' and a free tail
PaddedNames ==
    {Pad(n) \o tail : n \in {0, NameLimit - 2, NameLimit - 1}, tail \in SeqsUpTo(NameChars, MaxTail)}

\* '<a>', 'a<a>a', '<<a>a>', 61 'a' and '<a>', '<aaaaaaaa>' and 60 'a', 200 'a'
SpecialNames ==
    {<<LT, 97, GT>>, <<97, LT, 97, GT, 97>>, <<LT, LT, 97, GT, 97, GT>>,
     Pad(NameLimit - 2) \o <<LT, 97, GT>>,
     <<LT>> \o Pad(8) \o <<GT>> \o Pad(NameLimit - 3),
     Pad(200)}

Names == PaddedNames \cup SpecialNames

Ids == {0, 1, 33}
Turns == {1, 4}
Counts == {1, 4}

HeroLists ==
    SeqsUpTo([id : Ids, turn : Turns], MaxHeroes)
    \cup {[i \in 1..HeroCountOverflow |-> [id |-> i, turn |-> 1]]}

CardLists == SeqsUpTo([id : Ids, count : Counts], MaxCards)

\* A few hero lists and card lists: none, one entry, two entries in descending id order
FewHeroLists ==
    {<<>>, <<[id |-> 33, turn |-> 4]>>, <<[id |-> 33, turn |-> 1], [id |-> 1, turn |-> 4]>>}

FewCardLists ==
    {<<>>, <<[id |-> 1, count |-> 1]>>, <<[id |-> 33, count |-> 4], [id |-> 1, count |-> 1]>>}

\* The deck contents callers pass: every name with a few decks, and with a few names
\* every hero list with a few card lists and every card list with a few hero lists
Contents ==
    [name : Names, heroes : {<<>>, <<[id |-> 33, turn |-> 4]>>},
     cards : {<<>>, <<[id |-> 1, count |-> 1]>>}]
    \cup [name : {<<>>, <<97>>, <<233>>}, heroes : HeroLists, cards : FewCardLists]
    \cup [name : {<<>>, <<97>>, <<233>>}, heroes : FewHeroLists, cards : CardLists]

\* The version arguments callers pass
VersionArgs == {1, 2, 3, 16}

\* The calls of encode_deck: <<deck_contents, version>>
EncodeCalls ==
    (Contents \X {2})
    \cup ([name : {<<97>>}, heroes : {<<>>, <<[id |-> 1, turn |-> 1]>>},
           cards : {<<>>, <<[id |-> 33, count |-> 4]>>}] \X VersionArgs)

\* Byte 0 of a payload: versions 1, 2 and 3, no hero, one hero, a hero count that continues
FirstBytes == {16, 17, 32, 33, 40, 48}

\* The other bytes: 0, 1 (a name length, an entry of count 1 and id delta 1), 33 (an entry
\* whose id delta continues), 97 ('a'), 193 (an entry with its count in the next bytes, a
\* continued 7-bit group, a malformed UTF-8 byte)
RestBytes == {0, 1, 33, 97, 193}

\* Checksum bytes worth trying for the bytes rest: the sum of any run of them, and 0
CheckBytes(rest) ==
    {0} \cup {SumSeq(SubSeq(rest, i, j)) % 256 : i \in 1..Len(rest), j \in 1..Len(rest)}

\* The bytes after the two header bytes of a payload that no encoder made (none: the
\* payload is one or two bytes long)
Rests ==
    {r \in SeqsUpTo(RestBytes, MaxRest) :
        Cardinality({i \in 1..Len(r) : r[i] >= 128}) <= MaxHighBytes}

\* The byte sequences given to the decoder (as deck codes) that no encoder made and that
\* end with the bytes rest
Payloads(rest) ==
    IF rest = <<>>
    THEN {<<b0>> : b0 \in FirstBytes} \cup {<<b0, ck>> : b0 \in FirstBytes, ck \in {0, 1}}
    ELSE {<<b0, ck>> \o rest : b0 \in FirstBytes, ck \in CheckBytes(rest)}

\* Payloads of version 2 that are a name and nothing else: of 63 characters, of 64, of
\* the 255 that the length byte can say
NamedPayloads == {<<32, 0, n>> \o Pad(n) : n \in {NameLimit, NameLimit + 1, 255}}

\* 'A', 'I', 'E', '_', 'é'
TextChars == {65, 73, 69, UNDERSCORE, 233}

\* The deck codes given as text: what starts them, then a free text
Texts ==
    {start \o body :
        start \in {<<>>, prefix, <<65, 68>>, <<68, 67, 65>>, <<97, 100, 99>>, prefix \o <<65>>},
        body \in SeqsUpTo(TextChars, MaxText)}

\* What is added (mod 256) to a byte to change it
ByteChanges == {1, 128, 255}

\* Largest small count (or turn) of a deck of one entry
MaxCount == 5

\* Threads that call the codec concurrently
NThreads == 2

\* The deck codes they decode: an empty deck, a deck of one hero and one card named 'a',
\* a wrong checksum, version 3, one byte only, no prefix
ThreadCodes ==
    {DeckCodeText(<<32, 0, 0>>), DeckCodeText(<<33, 35, 1, 33, 1, 1, 97>>),
     DeckCodeText(<<32, 5, 0, 1>>), DeckCodeText(<<48, 0, 0>>), DeckCodeText(<<16>>),
     <<65, 68>>}

\* The decks they encode, at version 2
ThreadDecks ==
    {[name |-> <<97>>, heroes |-> <<[id |-> 33, turn |-> 4]>>, cards |-> <<>>],
     [name |-> <<>>, heroes |-> <<>>,
      cards |-> <<[id |-> 33, count |-> 4], [id |-> 1, count |-> 1]>>]}

\* The counts (or turns) of a deck of one entry: the small ones, and those around the end
\* of one 7-bit group
EntryCounts == (1..MaxCount) \cup {127, 128, 129}

\* Its ids: around the end of the 5 bits of the header and of the first 7-bit group
EntryIds == {0, 1, 31, 32, 33, 4095, 4096}

\* The decks of one entry, a hero or a card
EntryDecks ==
    {[name |-> n, heroes |-> <<[id |-> i, turn |-> k]>>, cards |-> <<>>] :
        n \in {<<>>, <<97>>, <<233>>}, i \in EntryIds, k \in EntryCounts}
    \cup {[name |-> n, heroes |-> <<>>, cards |-> <<[id |-> i, count |-> k]>>] :
            n \in {<<>>, <<97>>, <<233>>}, i \in EntryIds, k \in EntryCounts}

\* The names of the cards of the catalogue: 'Satyr', 'SATYR', 'Storm', 'Bolt', 'Blade',
\* 'Cloak', 'Mist', 'Zero', 'Path', and 'Nope', the name of no card
Satyr == <<83, 97, 116, 121, 114>>

SATYR == <<83, 65, 84, 89, 82>>

Storm == <<83, 116, 111, 114, 109>>

Bolt == <<66, 111, 108, 116>>

Blade == <<66, 108, 97, 100, 101>>

Cloak == <<67, 108, 111, 97, 107>>

Mist == <<77, 105, 115, 116>>

Zero == <<90, 101, 114, 111>>

Path == <<80, 97, 116, 104>>

Nope == <<78, 111, 112, 101>>

\* One entry of card_list in the answer of the card API (CardListDataType).  The keys a
\* card type does not have hold a filler; rarity None: the key is missing.
CardJson(card_id, card_name, card_type, flags, rarity, mana_cost, gold_cost, sub_type) ==
    [card_id |-> card_id, base_card_id |-> card_id, card_name |-> card_name,
     card_type |-> card_type, flags |-> flags, rarity |-> rarity,
     mana_cost |-> mana_cost, gold_cost |-> gold_cost, sub_type |-> sub_type]

\* Set 00 as the card API answers it: a creep and its ability under one name, and a
\* game mechanic that is not indexed
BaseSet ==
    <<CardJson(1, Satyr, "Creep", {"is_blue"}, "Rare", 3, 0, ""),
      CardJson(2, Satyr, "Ability", {}, None, 0, 0, ""),
      CardJson(3, Path, "Pathing", {}, None, 0, 0, "")>>

\* Set 00 with the ability first, its name in capitals
BaseSetAbilityFirst ==
    <<CardJson(2, SATYR, "Ability", {}, None, 0, 0, ""),
      CardJson(1, Satyr, "Creep", {"is_blue"}, "Rare", 3, 0, ""),
      CardJson(3, Path, "Pathing", {}, None, 0, 0, "")>>

\* Set 01: a hero, two spells, an item
FirstSet ==
    <<CardJson(33, Storm, "Hero", {"is_blue"}, None, 0, 0, ""),
      CardJson(34, Bolt, "Spell", {"is_black"}, "Rare", 5, 0, ""),
      CardJson(35, Blade, "Item", {}, "Common", 0, 25, "Weapon"),
      CardJson(0, Zero, "Spell", {"is_red"}, None, 2, 0, "")>>

\* Set 01 with an improvement and two items
FirstSetItems ==
    <<CardJson(33, Storm, "Hero", {"is_blue"}, None, 0, 0, ""),
      CardJson(36, Mist, "Improvement", {"is_green", "is_red"}, "Common", 4, 0, ""),
      CardJson(35, Blade, "Item", {}, "Common", 0, 25, "Weapon"),
      CardJson(37, Cloak, "Item", {}, "Rare", 0, 7, "Armor")>>

\* What the card API answers for the sets 00 and 01
Answers ==
    {[s \in {"00", "01"} |-> IF s = "00" THEN BaseSet ELSE FirstSet],
     [s \in {"00", "01"} |-> IF s = "00" THEN BaseSetAbilityFirst ELSE FirstSetItems]}

\* The limit_sets given to Cards(): none, one set, both sets in the other order
LimitSets == {<<>>, <<"00">>, <<"01", "00">>}

\* The names given to Cards.get
GetNames == {Satyr, SATYR, Storm, Bolt, Path, Nope}

\* The decks whose version 2 deck codes are given to Deck.from_code: ids of the
\* catalogue, and the id 7 of no card
CodedDecks ==
    {[name |-> <<97>>, heroes |-> <<[id |-> 33, turn |-> 1]>>,
      cards |-> <<[id |-> 1, count |-> 1], [id |-> 35, count |-> 2]>>],
     [name |-> <<>>, heroes |-> <<>>, cards |-> <<[id |-> 35, count |-> 4]>>],
     [name |-> <<97>>, heroes |-> <<>>, cards |-> <<[id |-> 2, count |-> 1]>>],
     [name |-> <<>>, heroes |-> <<[id |-> 7, turn |-> 1]>>, cards |-> <<>>],
     [name |-> <<>>, heroes |-> <<>>, cards |-> <<>>]}

\* The deck codes given to Deck.from_code: those, a version 2 deck code no encoder made
\* (the card 1 with the count 0), a version 1 deck code (the hero 33 at turn 1), a deck
\* code without the prefix
DeckCodes ==
    {encode_deck(contents, 2).value : contents \in CodedDecks}
    \cup {DeckCodeText(<<32, 193, 0, 193, 0>>), DeckCodeText(<<17, 34, 33, 1>>), <<65, 68>>}

\* The largest of the small numbers written and read back on their own
MaxValue == 300

\* The numbers written: the small ones, and those around the ends of the 7-bit groups that
\* follow 0, 3 and 5 base bits
VarintValues ==
    (0..MaxValue) \cup {1023, 1024, 4095, 4096, 16383, 16384, 131071, 131072, 524287, 524288,
                        2097151, 2097152, 100000000}

\* The base bits the codec uses: none (a count or turn), 3 (the hero count), 5 (an id delta)
BaseBits == {0, 3, 5}

\* The bytes that follow the number in the buffer
VarintTails == {<<>>, <<0>>, <<129, 1>>}

\* Most calls of filter methods in one run, the first included
MaxCalls == 2

\* The arguments of one call of a filter method: filter_out, the strings (card types,
\* rarities, a sub type), the colours, the keyword arguments
Args(filter_out, strings, colors, kw) ==
    [filter_out |-> filter_out, strings |-> strings, colors |-> colors, kw |-> kw]

TypeArgs == {"Spell", "Item", "Nope"}

TypesArgs == {<<"Spell", "Item">>, <<"Hero", "Creep", "Ability">>}

RarityArgs == {"Rare", "Common"}

RaritiesArgs == {<<"Rare", "Common">>, <<"Rare">>}

\* 'blue', 'BLUE', 'red'
ColorArgs == {blue, <<66, 76, 85, 69>>, red}

ColorsArgs == {<<<<66, 76, 85, 69>>, red>>, <<black>>}

\* gt=4; lt=3, gt=4; gte=3; lte=25, eq=5; eq=7; no argument
CostArgs ==
    {[k \in {"gt"} |-> 4], [k \in {"lt", "gt"} |-> IF k = "lt" THEN 3 ELSE 4],
     [k \in {"gte"} |-> 3], [k \in {"lte", "eq"} |-> IF k = "lte" THEN 25 ELSE 5],
     [k \in {"eq"} |-> 7], EmptyDict}

SubTypeArgs == {"Weapon", "Armor"}

----------------------------------------------------------------------------
(* The state machine *)

VARIABLES
    caller,     \* the arguments of the caller's encode_deck call: [contents, version]
    encoder,    \* the Encoder of that call (version Unset: none yet)
    encoded,    \* what the call gave: [exc, msg, value], exc "unread" before the call
    reads,      \* reads of encoder.deck_code after the first
    reread,     \* what the latest of those reads gave
    decoder,    \* the Decoder at work (pc "none": none yet)
    source,     \* where decoder.deck_code comes from: "encoded", "payload", "text", "changed"
    reencoded,  \* what encode_deck(decoder._deck_contents, 2) gave after a decode
    threads,    \* the calls that run concurrently: for each thread [pc, kind, arg, ref, out]
    heap,       \* the Decoder and Encoder objects those calls constructed, in order
    ctx,        \* the module's Context: [cards_by_id, cards_by_name, loaded_sets]
    api,        \* the Cards object: [_set_numbers, cards_expanded]
    built,      \* the Deck built from a deck code: [code, exc, msg, deck_contents]
    dumped,     \* what deck_code, dumps() and str() of that Deck gave
    filters,    \* the CardFilter objects made since the last read of Cards.filter, in order
    calls,      \* the calls of their methods: [on, method, args, exc, out]
    got,        \* the latest call of Cards.get: [name, ignore_shared_name, exc, msg, is_list, items]
    varint      \* one number written by the encoder's primitive and read by the decoder's

\* The state of one caller's encode and decode calls
codecVars == <<caller, encoder, encoded, reads, reread, decoder, source, reencoded>>

\* The state of the concurrent calls
threadVars == <<threads, heap>>

\* All that the one caller's calls leave alone
\* The state of the catalogue, the deck and the filters
libVars == <<ctx, api, built, dumped, filters, calls, got>>

\* The state of the primitives called on their own
varintVars == <<varint>>

otherVars == <<threadVars, libVars, varintVars>>

vars == <<codecVars, otherVars>>

Unread == [exc |-> "unread", msg |-> "", value |-> <<>>]

NoEncoder == [version |-> Unset, heroes |-> <<>>, cards |-> <<>>, name |-> <<>>, binary |-> <<>>]

NoDecoder == [DecoderNew(<<>>) EXCEPT !.pc = "none"]

Outcome(r) == [exc |-> r.exc, msg |-> r.msg, value |-> r.value]

\* No Deck built yet, nothing dumped, no call of Cards.get yet
NoBuilt == [code |-> <<>>, exc |-> "unbuilt", msg |-> "", deck_contents |-> NoContents]

NoDumped == [deck_code |-> Unread, dumps |-> Unread, str |-> Unread]

NoGot == [name |-> <<>>, ignore_shared_name |-> TRUE, exc |-> "unread", msg |-> "",
          is_list |-> FALSE, items |-> <<>>]

\* No number written yet
NoVarint == [pc |-> "none", value |-> 0, base_bits |-> 0, base_value |-> 0, appended |-> <<>>,
             binary |-> <<>>, max_index |-> 0, out |-> Unread]

\* A thread that has made no call yet
IdleThread == [pc |-> "idle", kind |-> "none", arg |-> <<>>, ref |-> 0, out |-> Unread]

Init ==
    /\ caller = [contents |-> NoContents, version |-> Unset]
    /\ encoder = NoEncoder
    /\ encoded = Unread
    /\ reads = 0
    /\ reread = Unread
    /\ decoder = NoDecoder
    /\ source = "none"
    /\ reencoded = Unread
    /\ threads = [t \in 1..NThreads |-> IdleThread]
    /\ heap = <<>>
    /\ ctx = Context
    /\ api = CardsNew(<<>>)
    /\ built = NoBuilt
    /\ dumped = NoDumped
    /\ filters = <<>>
    /\ calls = <<>>
    /\ got = NoGot
    /\ varint = NoVarint

\* A caller calls encode_deck(deck_contents, version)
EncodeDeck ==
    /\ encoded.exc = "unread" /\ decoder.pc = "none"
    /\ \E call \in EncodeCalls :
         LET r == encode_deck(call[1], call[2])
         IN  /\ caller' = [contents |-> call[1], version |-> call[2]]
             /\ encoder' = r.enc
             /\ encoded' = Outcome(r)
    /\ UNCHANGED <<reads, reread, decoder, source, reencoded>>
    /\ UNCHANGED otherVars

\* The deck_code property of the same Encoder is read once more
ReadDeckCode ==
    /\ encoded.exc = "none" /\ decoder.pc = "none" /\ reads < MaxReads
    /\ LET r == deck_code(encoder)
       IN  /\ encoder' = r.enc
           /\ reread' = Outcome(r)
    /\ reads' = reads + 1
    /\ UNCHANGED <<caller, encoded, decoder, source, reencoded>>
    /\ UNCHANGED otherVars

\* decode_deck_string is called with the deck code encode_deck returned
DecodeEncoded ==
    /\ encoded.exc = "none" /\ decoder.pc = "none" /\ reads = 0
    /\ decoder' = DecoderNew(encoded.value)
    /\ source' = "encoded"
    /\ UNCHANGED <<caller, encoder, encoded, reads, reread, reencoded>>
    /\ UNCHANGED otherVars

\* decode_deck_string is called with the deck code of some bytes
DecodePayload ==
    /\ decoder.pc = "none" /\ encoded.exc = "unread"
    /\ \E rest \in Rests :
         \E bs \in Payloads(rest) \cup (IF rest = <<>> THEN NamedPayloads ELSE {}) :
            decoder' = DecoderNew(DeckCodeText(bs))
    /\ source' = "payload"
    /\ UNCHANGED <<caller, encoder, encoded, reads, reread, reencoded>>
    /\ UNCHANGED otherVars

\* decode_deck_string is called with some text
DecodeText ==
    /\ decoder.pc = "none" /\ encoded.exc = "unread"
    /\ \E s \in Texts : decoder' = DecoderNew(s)
    /\ source' = "text"
    /\ UNCHANGED <<caller, encoder, encoded, reads, reread, reencoded>>
    /\ UNCHANGED otherVars

\* The card region of a Decoder past the checksum: the indices
\* _card_bytes_start_index .. _total_card_bytes - 1
CardRegion(d) == {i \in 0..(Len(d._binary) - 1) :
                     d._card_bytes_start_index <= i /\ i < d._total_card_bytes}

\* A deck code that decoded is given again with one byte of its card region changed
DecodeChanged ==
    /\ decoder.pc = "returned" /\ source \in {"payload", "text"}
    /\ \E i \in CardRegion(decoder), ch \in ByteChanges :
         decoder' = DecoderNew(DeckCodeText(
                        SetAt(decoder._binary, i, (At(decoder._binary, i) + ch) % 256)))
    /\ source' = "changed"
    /\ UNCHANGED <<caller, encoder, encoded, reads, reread, reencoded>>
    /\ UNCHANGED otherVars

\* The steps of Decoder.deck_contents
DecodeString ==
    /\ decoder.pc = "_decode_string"
    /\ decoder' = _decode_string(decoder)
    /\ UNCHANGED <<caller, encoder, encoded, reads, reread, source, reencoded>>
    /\ UNCHANGED otherVars

GetVersionAndHeroes ==
    /\ decoder.pc = "_get_version_and_heroes"
    /\ decoder' = _get_version_and_heroes(decoder)
    /\ UNCHANGED <<caller, encoder, encoded, reads, reread, source, reencoded>>
    /\ UNCHANGED otherVars

GetLengthsAndCalcChecksum ==
    /\ decoder.pc = "_get_lengths_and_calc_checksum"
    /\ decoder' = _get_lengths_and_calc_checksum(decoder)
    /\ UNCHANGED <<caller, encoder, encoded, reads, reread, source, reencoded>>
    /\ UNCHANGED otherVars

ParseDeck ==
    /\ decoder.pc = "_parse_deck"
    /\ decoder' = _parse_deck(decoder)
    /\ UNCHANGED <<caller, encoder, encoded, reads, reread, source, reencoded>>
    /\ UNCHANGED otherVars

\* The decoded contents are encoded again: encode_deck(deck_contents, version=2)
ReEncode ==
    /\ decoder.pc = "returned" /\ source = "encoded" /\ reencoded.exc = "unread"
    /\ reencoded' = Outcome(encode_deck(decoder._deck_contents, 2))
    /\ UNCHANGED <<caller, encoder, encoded, reads, reread, decoder, source>>
    /\ UNCHANGED otherVars

DecoderSteps == DecodeString \/ GetVersionAndHeroes \/ GetLengthsAndCalcChecksum \/ ParseDeck

\* Encoding, and decoding what was encoded
Next == EncodeDeck \/ ReadDeckCode \/ DecodeEncoded \/ DecoderSteps \/ ReEncode

Spec == Init /\ [][Next]_vars

\* Decoding deck codes no encoder made
NextDecode == DecodePayload \/ DecodeText \/ DecodeChanged \/ DecoderSteps

SpecDecode == Init /\ [][NextDecode]_vars

\* A caller calls encode_deck with a deck of one entry, at the default version
EncodeEntry ==
    /\ encoded.exc = "unread" /\ decoder.pc = "none"
    /\ \E deck \in EntryDecks :
         LET r == encode_deck(deck, 2)
         IN  /\ caller' = [contents |-> deck, version |-> 2]
             /\ encoder' = r.enc
             /\ encoded' = Outcome(r)
    /\ UNCHANGED <<reads, reread, decoder, source, reencoded>>
    /\ UNCHANGED otherVars

\* Encoding decks of one entry and decoding them
NextEntry == EncodeEntry \/ DecodeEncoded \/ DecoderSteps

SpecEntry == Init /\ [][NextEntry]_vars

\* Every object is shared: a construction gives the first object again
AllocateShared(h) == 1

\* Decoder(deck_code) and Encoder(deck_contents, version) construct a new object: its
\* place in the heap
Allocate(h) == Len(h) + 1

\* The heap with the object obj constructed at ref
Store(h, ref, obj) == IF ref > Len(h) THEN Append(h, obj) ELSE [h EXCEPT ![ref] = obj]

\* Thread t calls decode_deck_string(code): Decoder(deck_code) is constructed
ThreadCallDecode(t) ==
    /\ threads[t].pc = "idle"
    /\ \E code \in ThreadCodes :
         /\ heap' = Store(heap, Allocate(heap), [d |-> DecoderNew(code), e |-> NoEncoder])
         /\ threads' = [threads EXCEPT ![t] = [pc |-> "running", kind |-> "decode",
                                               arg |-> code, ref |-> Allocate(heap),
                                               out |-> Unread]]
    /\ UNCHANGED <<codecVars, libVars, varintVars>>

\* Thread t runs the next stage of Decoder.deck_contents on its Decoder
ThreadStepDecode(t) ==
    /\ threads[t].pc = "running" /\ threads[t].kind = "decode"
    /\ heap' = [heap EXCEPT ![threads[t].ref].d = DecoderStep(@)]
    /\ threads' = [threads EXCEPT ![t].pc =
                      IF heap'[threads[t].ref].d.pc \in {"returned", "raised"}
                      THEN "done" ELSE "running"]
    /\ UNCHANGED <<codecVars, libVars, varintVars>>

\* Thread t calls encode_deck(deck, 2): Encoder(deck_contents, version) is constructed
ThreadCallEncode(t) ==
    /\ threads[t].pc = "idle"
    /\ \E deck \in ThreadDecks :
         /\ heap' = Store(heap, Allocate(heap), [d |-> NoDecoder, e |-> EncoderNew(deck, 2)])
         /\ threads' = [threads EXCEPT ![t] = [pc |-> "running", kind |-> "encode",
                                               arg |-> deck, ref |-> Allocate(heap),
                                               out |-> Unread]]
    /\ UNCHANGED <<codecVars, libVars, varintVars>>

\* Thread t reads deck_code of its Encoder and returns
ThreadStepEncode(t) ==
    /\ threads[t].pc = "running" /\ threads[t].kind = "encode"
    /\ heap' = [heap EXCEPT ![threads[t].ref].e = deck_code(@).enc]
    /\ threads' = [threads EXCEPT ![t].pc = "done",
                                  ![t].out = Outcome(deck_code(heap[threads[t].ref].e))]
    /\ UNCHANGED <<codecVars, libVars, varintVars>>

\* Calls of decode_deck_string and encode_deck by several threads, their steps interleaved
NextThreads ==
    \E t \in 1..NThreads :
        ThreadCallDecode(t) \/ ThreadStepDecode(t) \/ ThreadCallEncode(t) \/ ThreadStepEncode(t)

SpecThreads == Init /\ [][NextThreads]_vars

----------------------------------------------------------------------------
(* The catalogue, the deck and the filters *)

\* Cards(limit_sets) is constructed
CardsInit ==
    /\ \E limit_sets \in LimitSets : api' = CardsNew(limit_sets)
    /\ UNCHANGED <<ctx, built, dumped, filters, calls, got>>
    /\ UNCHANGED <<codecVars, threadVars, varintVars>>

\* cards.load_all_sets() is called, the card API answering with one of the catalogues
LoadAllSets ==
    /\ \E answers \in Answers :
         LET r == load_all_sets(api, ctx, answers)
         IN  ctx' = r.ctx /\ api' = r.self
    /\ UNCHANGED <<built, dumped, filters, calls, got>>
    /\ UNCHANGED <<codecVars, threadVars, varintVars>>

\* cards.get(name, ignore_shared_name) is called
CardsGet ==
    /\ \E name_arg \in GetNames, ignore_shared_name \in BOOLEAN :
         LET r == Cards_get(ctx, name_arg, ignore_shared_name)
         IN  /\ ctx' = r.ctx
             /\ got' = [name |-> name_arg, ignore_shared_name |-> ignore_shared_name,
                        exc |-> r.exc, msg |-> r.msg, is_list |-> r.is_list,
                        items |-> r.items]
    /\ UNCHANGED <<api, built, dumped, filters, calls>>
    /\ UNCHANGED <<codecVars, threadVars, varintVars>>

NextCards == CardsInit \/ LoadAllSets \/ CardsGet

SpecCards == Init /\ [][NextCards]_vars

\* Deck.from_code(code) (or Deck.loads(code), the same function) is called
DeckFromCode ==
    /\ \E code \in DeckCodes :
         LET r == Deck_from_code(ctx, code)
         IN  built' = [code |-> code, exc |-> r.exc, msg |-> r.msg,
                       deck_contents |-> r.deck_contents]
    /\ dumped' = NoDumped
    /\ UNCHANGED <<ctx, api, filters, calls, got>>
    /\ UNCHANGED <<codecVars, threadVars, varintVars>>

\* deck.deck_code is read
DeckDeckCode ==
    /\ built.exc = "none"
    /\ dumped' = [dumped EXCEPT !.deck_code = Deck_deck_code(built)]
    /\ UNCHANGED <<ctx, api, built, filters, calls, got>>
    /\ UNCHANGED <<codecVars, threadVars, varintVars>>

\* deck.dumps() is called
DeckDumps ==
    /\ built.exc = "none"
    /\ dumped' = [dumped EXCEPT !.dumps = Deck_dumps(built)]
    /\ UNCHANGED <<ctx, api, built, filters, calls, got>>
    /\ UNCHANGED <<codecVars, threadVars, varintVars>>

\* str(deck) is called
DeckStr ==
    /\ built.exc = "none"
    /\ dumped' = [dumped EXCEPT !.str = Deck___str__(built)]
    /\ UNCHANGED <<ctx, api, built, filters, calls, got>>
    /\ UNCHANGED <<codecVars, threadVars, varintVars>>

NextDeck == CardsInit \/ LoadAllSets \/ DeckFromCode \/ DeckDeckCode \/ DeckDumps \/ DeckStr

SpecDeck == Init /\ [][NextDeck]_vars

\* cards.load_all_sets() is called and the card API fails for one of the sets of cards
LoadAllSetsFails ==
    /\ \E answers \in Answers, failed \in {api._set_numbers[i] : i \in 1..Len(api._set_numbers)} :
         LET r == load_all_sets_raises(api, ctx, answers, failed)
         IN  ctx' = r.ctx /\ api' = r.self
    /\ UNCHANGED <<built, dumped, filters, calls, got>>
    /\ UNCHANGED <<codecVars, threadVars, varintVars>>

\* Constructions of Cards and loads that succeed or fail, and decks built in between
NextCatalogue == CardsInit \/ LoadAllSets \/ LoadAllSetsFails \/ DeckFromCode

SpecCatalogue == Init /\ [][NextCatalogue]_vars

\* cards.filter is read: a new CardFilter with all the cards
CardsFilter ==
    /\ filters' = <<CardFilterNew(api.cards_expanded)>>
    /\ calls' = <<>>
    /\ UNCHANGED <<ctx, api, built, dumped, got>>
    /\ UNCHANGED <<codecVars, threadVars, varintVars>>

\* The method of the CardFilter number on has been called with args and gave r: it has
\* changed that CardFilter, and the CardFilter it returned (if it did not raise) is new
FilterCalled(on, method, args, r) ==
    /\ filters' = IF r.exc = "none"
                  THEN Append([filters EXCEPT ![on] = r.self], r.returned)
                  ELSE [filters EXCEPT ![on] = r.self]
    /\ calls' = Append(calls, [on |-> on, method |-> method, args |-> args, exc |-> r.exc,
                               out |-> IF r.exc = "none" THEN Len(filters) + 1 ELSE 0])
    /\ UNCHANGED <<ctx, api, built, dumped, got>>
    /\ UNCHANGED <<codecVars, threadVars, varintVars>>

\* The CardFilter objects a method can be called on
Callable == IF Len(calls) < MaxCalls THEN 1..Len(filters) ELSE {}

FilterType ==
    \E on \in Callable, type_ \in TypeArgs, filter_out \in BOOLEAN :
        FilterCalled(on, "type", Args(filter_out, <<type_>>, <<>>, EmptyDict),
                     CardFilter_type(filters[on], type_, filter_out))

FilterTypesIn ==
    \E on \in Callable, card_types \in TypesArgs :
        FilterCalled(on, "types_in", Args(FALSE, card_types, <<>>, EmptyDict),
                     CardFilter_types_in(filters[on], card_types))

FilterTypesNotIn ==
    \E on \in Callable, card_types \in TypesArgs :
        FilterCalled(on, "types_not_in", Args(FALSE, card_types, <<>>, EmptyDict),
                     CardFilter_types_not_in(filters[on], card_types))

FilterRarity ==
    \E on \in Callable, rarity_arg \in RarityArgs :
        FilterCalled(on, "rarity", Args(FALSE, <<rarity_arg>>, <<>>, EmptyDict),
                     CardFilter_rarity(filters[on], rarity_arg))

FilterRarityIn ==
    \E on \in Callable, rarities \in RaritiesArgs :
        FilterCalled(on, "rarity_in", Args(FALSE, rarities, <<>>, EmptyDict),
                     CardFilter_rarity_in(filters[on], rarities))

FilterRarityNotIn ==
    \E on \in Callable, rarities \in RaritiesArgs :
        FilterCalled(on, "rarity_not_in", Args(FALSE, rarities, <<>>, EmptyDict),
                     CardFilter_rarity_not_in(filters[on], rarities))

FilterColor ==
    \E on \in Callable, color_arg \in ColorArgs :
        FilterCalled(on, "color", Args(FALSE, <<>>, <<color_arg>>, EmptyDict),
                     CardFilter_color(filters[on], color_arg))

FilterColorIn ==
    \E on \in Callable, colors_arg \in ColorsArgs :
        FilterCalled(on, "color_in", Args(FALSE, <<>>, colors_arg, EmptyDict),
                     CardFilter_color_in(filters[on], colors_arg))

FilterColorNotIn ==
    \E on \in Callable, colors_arg \in ColorsArgs :
        FilterCalled(on, "color_not_in", Args(FALSE, <<>>, colors_arg, EmptyDict),
                     CardFilter_color_not_in(filters[on], colors_arg))

FilterManaCost ==
    \E on \in Callable, kw \in CostArgs :
        FilterCalled(on, "mana_cost", Args(FALSE, <<>>, <<>>, kw),
                     CardFilter_mana_cost(filters[on], kw))

FilterGoldCost ==
    \E on \in Callable, kw \in CostArgs :
        FilterCalled(on, "gold_cost", Args(FALSE, <<>>, <<>>, kw),
                     CardFilter_gold_cost(filters[on], kw))

FilterSubType ==
    \E on \in Callable, sub_type_arg \in SubTypeArgs :
        FilterCalled(on, "sub_type", Args(FALSE, <<sub_type_arg>>, <<>>, EmptyDict),
                     CardFilter_sub_type(filters[on], sub_type_arg))

NextFilter ==
    \/ LoadAllSets
    \/ CardsFilter
    \/ FilterType
    \/ FilterTypesIn
    \/ FilterTypesNotIn
    \/ FilterRarity
    \/ FilterRarityIn
    \/ FilterRarityNotIn
    \/ FilterColor
    \/ FilterColorIn
    \/ FilterColorNotIn
    \/ FilterManaCost
    \/ FilterGoldCost
    \/ FilterSubType

SpecFilter == Init /\ [][NextFilter]_vars

----------------------------------------------------------------------------
(* The primitives on their own *)

\* value is written as the encoder writes a number with base_bits of it in a header byte:
\* _extract_n_bits(value, base_bits) is the header (0 with no base bits), and
\* _add_remaining_bits_from_number(value, base_bits) appends the rest to an empty buffer;
\* other bytes follow
WriteVarint ==
    /\ varint.pc = "none"
    /\ \E value \in VarintValues, base_bits \in BaseBits, tail \in VarintTails :
         LET b == _add_remaining_bits_from_number([bin |-> <<>>, exc |-> "none", msg |-> ""],
                                                  value, base_bits)
         IN  \E max_index \in {Len(b.bin), Len(b.bin) + Len(tail)} :
                varint' = [pc |-> "written", value |-> value, base_bits |-> base_bits,
                           base_value |-> IF base_bits = 0 THEN 0
                                          ELSE _extract_n_bits(value, base_bits),
                           appended |-> b.bin, binary |-> b.bin \o tail,
                           max_index |-> max_index, out |-> Unread]
    /\ UNCHANGED <<codecVars, threadVars, libVars>>

\* _read_var_encoded reads the number back from the start of the buffer
ReadVarint ==
    /\ varint.pc = "written"
    /\ LET r == _read_var_encoded(varint.binary, varint.base_value, varint.base_bits, 0,
                                  varint.max_index, Unset)
       IN  varint' = [varint EXCEPT !.pc = "read",
                                    !.out = [exc |-> r.exc, msg |-> r.msg,
                                             value |-> <<r.value, r.index>>]]
    /\ UNCHANGED <<codecVars, threadVars, libVars>>

NextVarint == WriteVarint \/ ReadVarint

SpecVarint == Init /\ [][NextVarint]_vars

----------------------------------------------------------------------------
(* Properties *)

Pairs(heroes) == {<<heroes[i].id, heroes[i].turn>> : i \in 1..Len(heroes)}

CardPairs(cards) == {<<cards[i].id, cards[i].count>> : i \in 1..Len(cards)}

DecoderDone == decoder.pc \in {"returned", "raised"}

\* The deck contents C1 speaks of
RoundTripInput(c) ==
    /\ Len(c.name) <= 63
    /\ StripTags(c.name) = c.name
    /\ \A i \in 1..Len(c.heroes) : c.heroes[i].id >= 0 /\ c.heroes[i].turn >= 1
    /\ \A i \in 1..Len(c.cards) : c.cards[i].id >= 0 /\ c.cards[i].count >= 1

\* C1: for deck contents whose name has at most 63 characters and no HTML-like tag, with
\* ids >= 0 and turns and counts >= 1, encoding at version 2 and decoding the result
\* succeeds and gives back the name, the set of (id, turn) pairs of the heroes and the set
\* of (id, count) pairs of the cards.
C1_RoundTrip ==
    (caller.version = 2 /\ RoundTripInput(caller.contents)) =>
        /\ encoded.exc \in {"unread", "none"}
        /\ (source = "encoded" /\ DecoderDone) =>
              /\ decoder.pc = "returned"
              /\ decoder._deck_contents.name = caller.contents.name
              /\ Pairs(decoder._deck_contents.heroes) = Pairs(caller.contents.heroes)
              /\ CardPairs(decoder._deck_contents.cards) = CardPairs(caller.contents.cards)

\* C2: for every deck code s that encode_deck returned at version 2, decoding s succeeds
\* and encoding the result at version 2 returns exactly s.
C2_ReEncodeIdentity ==
    (caller.version = 2 /\ source = "encoded") =>
        /\ decoder.pc # "raised"
        /\ reencoded.exc # "unread" =>
              (reencoded.exc = "none" /\ reencoded.value = encoded.value)

\* The ways to put the list s in another order (every one for a list of up to three
\* entries, the reverse for a longer one)
Rearranged(s) ==
    IF Len(s) <= 3
    THEN {[i \in 1..Len(s) |-> s[f[i]]] : f \in Permutations(1..Len(s))}
    ELSE {s, [i \in 1..Len(s) |-> s[Len(s) + 1 - i]]}

\* Entries of the list s that have the same id are the same entry
TiesAgree(s) == \A i, j \in 1..Len(s) : s[i].id = s[j].id => s[i] = s[j]

Ascending(s) == \A i \in 1..(Len(s) - 1) : s[i].id <= s[i + 1].id

\* What encode_deck returns for the caller's deck with its lists in every other order is
\* what it returned for the caller's deck
SameCodeInAnyOrder ==
    \A hs \in Rearranged(caller.contents.heroes), cs \in Rearranged(caller.contents.cards) :
        Outcome(encode_deck([name |-> caller.contents.name, heroes |-> hs, cards |-> cs],
                            caller.version)) = encoded

DecodedAscending ==
    (source = "encoded" /\ decoder.pc = "returned") =>
        (Ascending(decoder._deck_contents.heroes) /\ Ascending(decoder._deck_contents.cards))

\* C3 as claimed: encode_deck returns the same deck code for any two deck contents whose
\* hero lists and card lists are permutations of each other, ids not assumed unique
\* within a list, and decoding that code yields heroes and cards in ascending id order.
C3_AnyPermutation ==
    /\ encoded.exc = "none" => SameCodeInAnyOrder
    /\ DecodedAscending

\* C3 as amended: encode_deck returns the same deck code for any two deck contents whose
\* hero lists and card lists are permutations of each other, provided that entries of a
\* list that share an id are equal (in particular when the ids of a list are unique);
\* what decoding that code returns has its heroes and its cards in ascending id order.
C3_CanonicalOrder ==
    /\ (encoded.exc = "none" /\ TiesAgree(caller.contents.heroes)
          /\ TiesAgree(caller.contents.cards)) => SameCodeInAnyOrder
    /\ DecodedAscending

\* Two heroes given in descending id order were encoded, decoded, and came back
C3_Witness ==
    /\ source = "encoded" /\ decoder.pc = "returned"
    /\ Len(caller.contents.heroes) = 2
    /\ caller.contents.heroes[1].id > caller.contents.heroes[2].id
    /\ Len(caller.contents.cards) = 2
    /\ caller.contents.cards[1].id > caller.contents.cards[2].id

\* C9: encode_deck returns a deck code only when called with version 2.
C9_OnlyVersion2 == encoded.exc = "none" => caller.version = 2

IsPrefixOf(p, s) == Len(p) <= Len(s) /\ SubSeq(s, 1, Len(p)) = p

\* C10: the name encode_deck writes is a prefix of the caller's name with its tags
\* stripped, and is that whole stripped name when it has at most 63 characters.
C10_StripThenCut ==
    encoder.version # Unset =>
        /\ IsPrefixOf(encoder.name, StripTags(caller.contents.name))
        /\ Len(StripTags(caller.contents.name)) <= 63 =>
              encoder.name = StripTags(caller.contents.name)

\* C4: a deck code that decoded, given again with one byte of its card region changed,
\* fails with the checksum error of InvalidDeckString; no hero or card is read.
C4_ChecksumEnforced ==
    source = "changed" =>
        /\ decoder.pc \notin {"_parse_deck", "returned"}
        /\ decoder.pc = "raised" => (decoder.exc = "InvalidDeckString" /\ decoder.msg = "checksum")
        /\ decoder._deck_contents = NoContents /\ decoder._heroes_count = Unset

C4_Witness ==
    source = "changed" /\ decoder.pc = "raised" /\ decoder.msg = "checksum"

\* C5: decode_deck_string ends by returning or by raising InvalidDeckString or
\* DeckDecodeException, nothing else.
C5_TypedErrorsOnly ==
    decoder.pc = "raised" => decoder.exc \in {"InvalidDeckString", "DeckDecodeException"}

\* The entry parsing read, or tried to read, a byte at or after the end of the card region
RanPastRegion(d) ==
    \/ d.hi # Unset /\ d.hi >= d._total_card_bytes
    \/ d.pc = "raised" /\ d.msg \in {"variable", "card"}

\* C6: when the card region ends inside a varint or before the heroes counted in the
\* header have been read, decode_deck_string raises DeckDecodeException.
C6_TruncatedRaises ==
    (DecoderDone /\ RanPastRegion(decoder)) =>
        (decoder.pc = "raised" /\ decoder.exc = "DeckDecodeException")

\* C7: a string that does not start with 'ADC' fails with the prefix error of
\* InvalidDeckString, and nothing was decoded from base64.
C7_PrefixEnforced ==
    (decoder.pc \notin {"none", "_decode_string"}
       /\ (Len(decoder.deck_code) < 3 \/ SubSeq(decoder.deck_code, 1, 3) # <<65, 68, 67>>)) =>
        /\ decoder.pc = "raised"
        /\ decoder.exc = "InvalidDeckString" /\ decoder.msg = "prefix"
        /\ decoder._binary = <<>>

C7_Witness ==
    /\ decoder.pc = "raised" /\ decoder.msg = "prefix"
    /\ decoder.deck_code # <<>> /\ decoder.deck_code[1] = 65

C7_WitnessEmpty ==
    decoder.pc = "raised" /\ decoder.msg = "prefix" /\ decoder.deck_code = <<>>

\* C8: with bytes decoded, a high nibble of byte 0 other than 1 and 2 fails with the
\* version error of InvalidDeckString before any length, checksum, hero, card or name is
\* computed; a high nibble of 1 or 2 passes the version check.
C8_VersionGate ==
    (decoder._binary # <<>> /\ decoder.pc \notin {"none", "_decode_string", "_get_version_and_heroes"}) =>
        IF decoder._binary[1] \div 16 \in {1, 2}
        THEN decoder.msg # "version" /\ decoder.version = decoder._binary[1] \div 16
        ELSE /\ decoder.pc = "raised"
             /\ decoder.exc = "InvalidDeckString" /\ decoder.msg = "version"
             /\ decoder._name_length = Unset /\ decoder._total_card_bytes = Unset
             /\ decoder._heroes_count = Unset /\ decoder._deck_contents = NoContents

C8_Witness ==
    decoder.pc = "raised" /\ decoder.msg = "version" /\ decoder._binary[1] \div 16 = 3

\* C11: for a name of any length, encode_deck at version 2 succeeds, decoding what it
\* returned succeeds, and the decoded name has at most 63 characters.
C11_NameTruncated ==
    caller.version = 2 =>
        /\ encoded.exc \in {"unread", "none"}
        /\ (source = "encoded" /\ DecoderDone) =>
              (decoder.pc = "returned" /\ Len(decoder._deck_contents.name) <= 63)

\* C12: in the bytes the encoder produced, byte 2 is the number of name bytes that follow
\* the card region, also for names with characters of more than one byte.
C12_NameLengthByte ==
    (encoded.exc = "none" /\ reads = 0) =>
        At(encoder.binary, 2) = Len(Utf8Encode(encoder.name))

\* The 7-bit groups of n, lowest first, each but the last with bit 7 set; none for 0
RECURSIVE Groups7(_)
Groups7(n) ==
    IF n = 0 THEN <<>>
    ELSE IF n < 128 THEN <<n>>
    ELSE <<128 + (n % 128)>> \o Groups7(n \div 128)

\* The one entry of the caller's deck, as [id, n] with n its turn or count
TheEntry ==
    IF caller.contents.heroes # <<>>
    THEN [id |-> caller.contents.heroes[1].id, n |-> caller.contents.heroes[1].turn]
    ELSE [id |-> caller.contents.cards[1].id, n |-> caller.contents.cards[1].count]

\* The bytes of the entry in the encoder's bytes: after the three header bytes, before
\* the bytes of the name
EntryBytes == SubSeq(encoder.binary, 4, Len(encoder.binary) - Len(Utf8Encode(encoder.name)))

\* What the decoder's entry reader reads at offset 3 of the encoder's bytes
EntryRead ==
    _read_serialized_card(encoder.binary, [index |-> 3, base |-> 0, hi |-> Unset],
                          IF caller.contents.heroes # <<>>
                          THEN Len(encoder.binary) - At(encoder.binary, 2)
                          ELSE Len(encoder.binary))

C14_UrlSafe ==
    (encoded.exc = "none" /\ reads = 0) =>
        /\ SubSeq(encoded.value, 1, 3) = <<65, 68, 67>>
        /\ Len(encoded.value) = 3 + Len(B64Encode(encoder.binary))
        /\ \A i \in 1..Len(encoded.value) : encoded.value[i] \notin {PLUS, SLASH, EQUALS}

\* The decoder d returned the heroes and cards the decoder of this state returned
SameDeck(d) ==
    /\ d.pc = "returned"
    /\ Pairs(d._deck_contents.heroes) = Pairs(decoder._deck_contents.heroes)
    /\ CardPairs(d._deck_contents.cards) = CardPairs(decoder._deck_contents.cards)

\* The call r of encode_deck returned and what it returned decodes to the same deck
EncodedAgain(r) == r.exc = "none" /\ SameDeck(decode_deck_string(r.value))

\* C15: whenever decode_deck_string returns on a version-2 code, encode_deck of what it
\* returned, at version 2, returns a code, and decoding that code returns the same set of
\* (id, turn) pairs of heroes and of (id, count) pairs of cards.
C15_DecodeEncode ==
    (source \in {"payload", "text"} /\ decoder.pc = "returned" /\ decoder.version = 2) =>
        EncodedAgain(encode_deck(decoder._deck_contents, 2))

\* C16: a version-1 payload has a header of 2 bytes, no name, and a card region and
\* checksum range from offset 2 to its end; no byte at offset 2 is needed, so the payload
\* 10 00 (version 1, no hero, checksum 0) decodes to the empty deck.
C16_Version1Layout ==
    (decoder.version = 1 /\ Len(decoder._binary) >= 2 /\ DecoderDone) =>
        /\ decoder.exc # "IndexError" \/ decoder.msg # "byte 2"
        /\ decoder._name_length = 0
        /\ (decoder._card_bytes_start_index # Unset) =>
              /\ decoder._card_bytes_start_index = 2
              /\ decoder._total_card_bytes = Len(decoder._binary)
        /\ decoder.pc = "returned" => decoder._deck_contents.name = <<>>
        /\ decoder._binary = <<16, 0>> =>
              (decoder.pc = "returned" /\ decoder._deck_contents = NoContents)

\* What a call of decode_deck_string gave, from its Decoder once it returned or raised
DecodeResult(d) == [pc |-> d.pc, exc |-> d.exc, msg |-> d.msg, contents |-> d._deck_contents]

\* Thread t ended as its call ends when it runs alone
EndsAsAlone(t) ==
    IF threads[t].kind = "decode"
    THEN DecodeResult(heap[threads[t].ref].d) = DecodeResult(decode_deck_string(threads[t].arg))
    ELSE threads[t].out = Outcome(encode_deck(threads[t].arg, 2))

\* C17: when calls of decode_deck_string and encode_deck run concurrently, their steps
\* interleaved in any order, each call returns or raises what it does when it runs alone.
C17_IndependentCalls == \A t \in 1..NThreads : threads[t].pc = "done" => EndsAsAlone(t)

\* Two calls have ended: thread 2 constructed its Encoder first, thread 1 its Decoder
\* second, the decode returned a deck with a card and the encode returned a code
C17_Witness ==
    /\ \A t \in 1..2 : threads[t].pc = "done"
    /\ threads[1].kind = "decode" /\ threads[1].ref = 2
    /\ heap[2].d.pc = "returned" /\ heap[2].d._deck_contents.cards # <<>>
    /\ threads[2].kind = "encode" /\ threads[2].out.exc = "none"


\* What decode_deck_string gives for the deck code the Deck was built from
BuiltFrom == decode_deck_string(built.code)

\* The entries of a Deck's list, without the instances: (id, turn-or-count), in order
Plain(entries, field) == [i \in 1..Len(entries) |-> <<entries[i].id, entries[i][field]>>]

\* The enrichment kept the name, the order and the values of what was decoded, and the
\* instance of every entry is the card of that id
Enriched ==
    /\ built.deck_contents.name = BuiltFrom._deck_contents.name
    /\ Plain(built.deck_contents.heroes, "turn") = Plain(BuiltFrom._deck_contents.heroes, "turn")
    /\ Plain(built.deck_contents.cards, "count") = Plain(BuiltFrom._deck_contents.cards, "count")
    /\ \A i \in 1..Len(built.deck_contents.heroes) :
          built.deck_contents.heroes[i].instance.id = built.deck_contents.heroes[i].id
    /\ \A i \in 1..Len(built.deck_contents.cards) :
          built.deck_contents.cards[i].instance.id = built.deck_contents.cards[i].id

\* The dump accessor how, once used, gave back the deck code the Deck was built from
GaveBack(how) == dumped[how].exc # "unread" => (dumped[how].exc = "none" /\ dumped[how].value = built.code)

\* C18: a Deck built by Deck.from_code (or Deck.loads) from a version-2 deck code whose
\* ids are all in the loaded catalogue gives back that deck code through deck.deck_code,
\* deck.dumps() and str(deck), and its enrichment with card instances changes neither the
\* name, nor the order, nor the (id, turn) and (id, count) values.
C18_DeckRoundTrip ==
    (built.exc = "none" /\ BuiltFrom.version = 2) =>
        /\ Enriched
        /\ GaveBack("deck_code")
        /\ GaveBack("dumps")
        /\ GaveBack("str")


\* Every call was made on the CardFilter the call before it returned, the first on the
\* CardFilter that Cards.filter gave
Chained ==
    \A i \in 1..Len(calls) : calls[i].on = IF i = 1 THEN 1 ELSE calls[i - 1].out

\* The card types the call names are card types of the library
KnownTypes(call) ==
    call.method \in {"type", "types_in", "types_not_in"} =>
        \A i \in 1..Len(call.args.strings) : call.args.strings[i] \in DOMAIN STR_TO_CARD_TYPE

\* s holds x
Holds(s, x) == \E i \in 1..Len(s) : s[i] = x

\* The card satisfies the predicate of the call
Satisfies(card, call) ==
    LET a == call.args
        classes == {STR_TO_CARD_TYPE[a.strings[i]] : i \in 1..Len(a.strings)}
        colors == [i \in 1..Len(a.colors) |-> Lower(a.colors[i])]
    IN  CASE call.method = "type" -> (card.class \in classes) # a.filter_out
          [] call.method = "types_in" -> card.class \in classes
          [] call.method = "types_not_in" -> card.class \notin classes
          [] call.method = "rarity" -> card.class \in NotAbility /\ Holds(a.strings, card.rarity)
          [] call.method = "rarity_in" -> card.class \in NotAbility /\ Holds(a.strings, card.rarity)
          [] call.method = "rarity_not_in" ->
                card.class \in NotAbility /\ ~Holds(a.strings, card.rarity)
          [] call.method = "color" -> card.class \in ColoredCard /\ Holds(colors, card.color)
          [] call.method = "color_in" -> card.class \in ColoredCard /\ Holds(colors, card.color)
          [] call.method = "color_not_in" ->
                card.class \in ColoredCard /\ ~Holds(colors, card.color)
          [] call.method = "mana_cost" -> card.class \in Castable /\ CostTest(card.mana_cost, a.kw)
          [] call.method = "gold_cost" -> card.class = "Item" /\ CostTest(card.gold_cost, a.kw)
          [] call.method = "sub_type" -> card.class = "Item" /\ Holds(a.strings, card.sub_type)

\* The cards of the starting list that satisfy the predicate of every call, in its order
Conjunction ==
    LET all(card) == \A i \in 1..Len(calls) : Satisfies(card, calls[i])
    IN  SelectSeq(filters[1].cards, all)

\* C19: when each filter method is called on the CardFilter returned by the call before
\* it, starting from a fresh Cards.filter, the last CardFilter returned holds exactly the
\* cards of the starting list that satisfy every predicate of the chain, each once and in
\* the order of the starting list.
C19_ChainedConjunction ==
    (calls # <<>> /\ Chained /\ \A i \in 1..Len(calls) : KnownTypes(calls[i])) =>
        /\ calls[Len(calls)].exc = "none"
        /\ filters[calls[Len(calls)].out].cards = Conjunction


\* The Cards object has loaded its sets, and nothing was loaded since
Loaded == api.cards_expanded # <<>> /\ ctx.loaded_sets = api._set_numbers

\* The loaded cards whose name is the name given, whatever the case, in the order loaded
SameName(name_arg) ==
    LET same(card) == Lower(card.name) = Lower(name_arg)
    IN  SelectSeq(api.cards_expanded, same)

\* Those that are not abilities
SameNameCards(name_arg) ==
    LET card_not_ability(card) == card.class \in NotAbility
    IN  SelectSeq(SameName(name_arg), card_not_ability)

\* What the claim says of the call of Cards.get that got records
GotAsClaimed ==
    IF got.ignore_shared_name
    THEN SameNameCards(got.name) # <<>> =>
            (got.exc = "none" /\ ~got.is_list /\ got.items = <<Head(SameNameCards(got.name))>>)
    ELSE got.exc = "none" /\ got.is_list /\ got.items = SameName(got.name)

\* C20: once the sets are loaded, Cards.get(name, ignore_shared_name=False) returns a
\* list of every loaded card whose name equals name case-insensitively, and
\* Cards.get(name) returns the first of those that is not an ability.
C20_SharedNames == [][(Loaded /\ CardsGet) => GotAsClaimed']_vars


\* The number read back is the number written, and the cursor is after the appended bytes
ReadBack ==
    /\ varint.out.exc = "none"
    /\ varint.out.value = <<varint.value, Len(varint.appended)>>

\* C21 as stated: for every value >= 0 and every base bits of 0, 3 and 5, reading with
\* _read_var_encoded (seeded with the header _extract_n_bits(value, base bits), or with 0
\* when there are no base bits) the bytes that _add_remaining_bits_from_number appended
\* gives value back and consumes exactly those bytes.
C21_VarintInverse == varint.pc = "read" => ReadBack

\* C21 as amended: the same for every value >= 0 with 3 or 5 base bits, and for every
\* value >= 1 with no base bits.
C21_VarintInverseWritten ==
    (varint.pc = "read" /\ (varint.base_bits # 0 \/ varint.value >= 1)) => ReadBack

\* A number of two 7-bit groups after its 5 base bits was read back, other bytes following
C21_Witness ==
    /\ varint.pc = "read" /\ varint.base_bits = 5 /\ varint.value = 4096
    /\ Len(varint.appended) = 2 /\ Len(varint.binary) = 4
    /\ varint.out.value = <<4096, 2>>


\* The base64 decoding of all the characters of the deck code after its first three
AfterPrefix(code) ==
    B64Decode(ReplaceChar(ReplaceChar(PySlice(code, Len(prefix), Len(code)), DASH, SLASH),
                          UNDERSCORE, EQUALS))

\* C22: the bytes the decoder works on are the base64 decoding of all the characters after
\* the three characters of the prefix: characters of the payload that are 'A', 'D' or
\* 'C' are kept.
C22_PrefixOnly ==
    (StartsWith(decoder.deck_code, prefix) /\ decoder._binary # <<>>) =>
        /\ AfterPrefix(decoder.deck_code).exc = "none"
        /\ decoder._binary = AfterPrefix(decoder.deck_code).value


\* C23: heroes and cards are parsed only from the bytes of the card region, from
\* _card_bytes_start_index up to _total_card_bytes: no byte of the name is read as part
\* of an id delta, a count or a turn, and when the decode returns the cursor is exactly
\* at the end of the card region.
C23_RegionConfined ==
    /\ (decoder.pc # "none" /\ decoder.hi # Unset) =>
          (decoder._card_bytes_start_index <= decoder.hi /\ decoder.hi < decoder._total_card_bytes)
    /\ decoder.pc = "returned" => decoder._current_index = decoder._total_card_bytes


\* C24: in what decode_deck_string returns every hero has a turn >= 1 and every card a
\* count >= 1, whether the header of the entry or the bytes after it hold the number.
C24_CountsFromOne ==
    decoder.pc = "returned" =>
        /\ \A i \in 1..Len(decoder._deck_contents.heroes) : decoder._deck_contents.heroes[i].turn >= 1
        /\ \A i \in 1..Len(decoder._deck_contents.cards) : decoder._deck_contents.cards[i].count >= 1


\* C25: the name in what decode_deck_string returns has at most 63 characters, whatever
\* the byte 2 of the payload says.
C25_NameWithinLimit ==
    decoder.pc = "returned" => Len(decoder._deck_contents.name) <= NameLimit


\* C26: a decode of version 2 succeeds only if the name length that byte 2 declares is at
\* most the length of the payload less the three header bytes, so that the name is made
\* of trailing bytes that are neither header nor card region, and the card region is
\* never of negative length.
C26_NameWithinPayload ==
    (decoder.pc = "returned" /\ decoder.version = 2) =>
        /\ decoder._name_length <= Len(decoder._binary) - 3
        /\ decoder._total_card_bytes >= decoder._card_bytes_start_index


\* C27: reading deck_code of one Encoder again gives the deck code the first read gave,
\* and leaves the Encoder's bytes equal to the encoding of the deck contents it was
\* constructed with.
C27_RepeatedReads ==
    reads > 0 =>
        /\ reread = encoded
        /\ encoder.binary = encode_deck(caller.contents, caller.version).enc.binary


\* The payload of d has a supported version in the high nibble of byte 0
VersionSupported(d) == d._binary # <<>> /\ Shr(At(d._binary, 0), 4) \in {1, 2}

\* Byte 1 of the payload of d equals the checksum of its card region
ChecksumMatched(d) ==
    /\ Len(d._binary) > 2
    /\ LET v1 == Shr(At(d._binary, 0), 4) = 1
           name_length == IF v1 THEN 0 ELSE At(d._binary, 2)
       IN  At(d._binary, 1) =
               ComputedChecksum(d._binary, IF v1 THEN 2 ELSE 3, Len(d._binary) - name_length)

\* The errors of the entry parsing of _parse_deck
ParsingErrors == {"variable", "card", "name"}

\* C28: the stages of a decode fail in the order prefix, empty payload, version,
\* checksum, entry parsing: an unsupported version is the version error whatever the
\* checksum byte, a checksum mismatch is reported with no hero or card entry read, and
\* an error of the entry parsing (truncated data) is reported only when the checksum
\* matched.
C28_StageOrder ==
    decoder.pc = "raised" =>
        /\ decoder.msg = "prefix" <=> ~StartsWith(decoder.deck_code, prefix)
        /\ decoder.msg = "no binary data" => decoder._binary = <<>>
        /\ decoder.msg = "version" <=> (decoder._binary # <<>> /\ ~VersionSupported(decoder))
        /\ decoder.msg = "checksum" <=>
               (VersionSupported(decoder) /\ Len(decoder._binary) > 2
                    /\ ~ChecksumMatched(decoder))
        /\ decoder.msg = "checksum" =>
               /\ decoder._heroes_count = Unset /\ decoder.hi = Unset
               /\ decoder._current_index = Unset /\ decoder._deck_contents = NoContents
        /\ decoder.msg \in ParsingErrors =>
               (VersionSupported(decoder) /\ ChecksumMatched(decoder))

\* A truncated-data error was reported, for a payload whose checksum matched
C28_Witness ==
    /\ decoder.pc = "raised" /\ decoder.exc = "DeckDecodeException"
    /\ decoder.msg \in ParsingErrors /\ ChecksumMatched(decoder)


\* The cards of the card list of the CardFilter that satisfy the predicate of the call,
\* in the order of that list
OwnPredicate(filter, call) ==
    LET own(card) == Satisfies(card, call)
    IN  SelectSeq(filter.cards, own)

\* C29: a filter call does not affect later filter calls on the same CardFilter: every
\* call that returned, whatever calls were made on that CardFilter before it, returned
\* exactly the cards of that CardFilter's card list that satisfy its own predicate.
C29_CallsIndependent ==
    \A i \in 1..Len(calls) :
        (KnownTypes(calls[i]) /\ calls[i].exc = "none") =>
            filters[calls[i].out].cards = OwnPredicate(filters[calls[i].on], calls[i])


\* The base ids of the cards that the card API answers for the sets, those of the game
\* mechanics that are not indexed left out
IndexedIds(answers) ==
    UNION {{answers[s][i].base_card_id :
                i \in {j \in 1..Len(answers[s]) : answers[s][j].card_type \notin not_indexed}} :
           s \in DOMAIN answers}

\* The loaded sets are all the sets
AllSetsLoaded == SortedEqual(ctx.loaded_sets, all_sets)

\* The deck code given to Deck.from_code decodes, so that a Deck is constructed
DeckConstructed == DeckFromCode /\ decode_deck_string(built'.code).pc = "returned"

\* C30: after any constructions of Cards and calls of load_all_sets, those that fail
\* part-way included, whenever the loaded sets are all the sets the id index holds the
\* cards of all the sets; and the construction of a Deck raises PyArtifactException
\* whenever the loaded sets are not all the sets.
C30_CatalogueConsistent ==
    /\ [](AllSetsLoaded => \E answers \in Answers : DOMAIN ctx.cards_by_id = IndexedIds(answers))
    /\ [][(DeckConstructed /\ ~AllSetsLoaded) => built'.exc = "PyArtifactException"]_vars

=============================================================================
